---------------------------- MODULE Spec2Model ----------------------------
(***************************************************************************)
(* A model of BevyDriver: the random track generator                       *)
(* (src/road/track_generator.rs), and the per-frame race logic             *)
(* (src/road/systems.rs, src/hud/systems.rs) run by the Bevy schedule.     *)
(*                                                                         *)
(* Nine specifications share the module:                                    *)
(*   GenSpec       one call of try_generate_track, one iteration a step    *)
(*   GenLiveSpec   GenSpec with the call running on until it returns       *)
(*   OuterSpec     two calls of generate_random_track with the same config *)
(*   ValidateSpec  the config.validate() step of generate_random_track     *)
(*   RaceSpec      the frames of one level session, steering and pausing   *)
(*   TickSpec      the frames of one level session, with the race timer    *)
(*   LayoutSpec    one call of validate_track_layout                       *)
(*   BoostSpec     the frames of one level session, with the car's boost   *)
(*   CollisionSpec one call of check_obb_collision                         *)
(* Each leaves the other parts' variables unchanged.                       *)
(***************************************************************************)
EXTENDS Integers, Sequences, FiniteSets, TLC

VARIABLES
    \* ---- try_generate_track (GenSpec) ----
    attempt,        \* the locals of try_generate_track, a record
    genConfig,      \* its config argument
    genGrid,        \* its half_width / half_height arguments
    \* ---- generate_random_track (OuterSpec) ----
    config,         \* the TrackGeneratorConfig both calls are given
    rngStream,      \* attempt seed -> the RNG stream seeded with it
    call,           \* which of the two calls is running (1 or 2)
    pc,             \* "validate", "batch" or "returned"
    fallback_i,     \* 0 for the configured seed, then the fallback index
    attemptsRun,    \* attempts of the current batch that have finished
    found,          \* layouts the finished attempts of the batch returned
    result,         \* per call: "pending", "panic", "None" or a track
    batchesRun,     \* per call: the batches started, in order
    \* ---- the frames of the app (RaceSpec) ----
    gameState,      \* State<GameState>
    nextState,      \* NextState<GameState>: "None" or the state asked for
    resumeFlag,     \* ResumeFromPause.0
    entities,       \* TRUE while the GameEntity entities (car, track) exist
    race_state,     \* the RaceState resource
    car,            \* the car's Transform
    visitedSegs,    \* the road segments that carry the Visited marker
    commands,       \* Visited insertions queued in Commands, not applied
    ranSystems,     \* the systems that have run in the current frame
    finishCheck,    \* what check_finish_line_crossing saw in this frame
    scenario,       \* the Playing systems followed and the keys that are used
    completedNow,   \* TRUE once this frame's sync point inserted the last marker
    panicked,       \* TRUE once a system has panicked
    pausedRace,     \* history: the race as it was when the current pause began
    \* ---- the car's boost (BoostSpec) ----
    nos_boost,      \* the car's NosBoostAvailable component, or NoBoost
    velocity,       \* the car's Velocity, along its heading
    powerups,       \* the positions of the NosPowerUp entities
    deferred,       \* the boost commands queued in Commands, not applied
    space_pressed   \* keyboard.pressed(KeyCode::Space) in the current frame

genVars == <<attempt, genConfig, genGrid>>

outerVars == <<config, rngStream, call, pc, fallback_i, attemptsRun, found,
               result, batchesRun>>

boostVars == <<nos_boost, velocity, powerups, deferred, space_pressed>>

raceVars == <<gameState, nextState, resumeFlag, entities, race_state, car,
              visitedSegs, commands, ranSystems, finishCheck, scenario,
              completedNow, panicked, pausedRace>>

vars == <<attempt, genConfig, genGrid, config, rngStream, call, pc, fallback_i,
          attemptsRun, found, result, batchesRun, gameState, nextState,
          resumeFlag, entities, race_state, car, visitedSegs, commands,
          ranSystems, finishCheck, scenario, completedNow, panicked, pausedRace,
          nos_boost, velocity, powerups, deferred, space_pressed>>

(***************************************************************************)
(* Directions and segment kinds (src/road/components.rs)                   *)
(***************************************************************************)
Direction == {"Up", "Down", "Left", "Right"}

RoadSegmentType == {"Straight", "CornerLeft", "CornerRight"}

\* The order in which the code enumerates the kinds (vec![...] / [...]).
SegmentOrder == <<"Straight", "CornerLeft", "CornerRight">>

get_exit_direction(entry_direction, segment_type) ==
    IF segment_type = "Straight" THEN entry_direction
    ELSE IF segment_type = "CornerLeft"
    THEN (CASE entry_direction = "Up" -> "Left"
            [] entry_direction = "Left" -> "Down"
            [] entry_direction = "Down" -> "Right"
            [] entry_direction = "Right" -> "Up")
    ELSE (CASE entry_direction = "Up" -> "Right"
            [] entry_direction = "Right" -> "Down"
            [] entry_direction = "Down" -> "Left"
            [] entry_direction = "Left" -> "Up")

\* IVec2 is a pair <<x, y>>.
IVec2_ZERO == <<0, 0>>

get_next_grid_position(pos, dir) ==
    CASE dir = "Up" -> <<pos[1], pos[2] + 1>>
      [] dir = "Down" -> <<pos[1], pos[2] - 1>>
      [] dir = "Left" -> <<pos[1] - 1, pos[2]>>
      [] dir = "Right" -> <<pos[1] + 1, pos[2]>>

Abs(n) == IF n < 0 THEN -n ELSE n

SeqContains(s, e) == \E i \in 1..Len(s) : s[i] = e

(***************************************************************************)
(* The generator's grid.  The code derives half_width = 11 and             *)
(* half_height = 6 from the window size; the model searches a smaller      *)
(* grid.                                                                   *)
(***************************************************************************)
HalfWidth == 2

HalfHeight == 3

\* A second, lower grid on which the two forced segments already reach the
\* top row.
LowHalfHeight == 2

MIN_VALID_SEGMENTS == 4

max_grid_segments_of(half_width, half_height) ==
    (2 * half_width + 1) * (2 * half_height + 1)

max_grid_segments == max_grid_segments_of(HalfWidth, HalfHeight)

\* max_backtracks is 1000 in the code; the model's budget is smaller.
max_backtracks == 2

(***************************************************************************)
(* f32 values.  target_difficulty is a record: nan says whether it is NaN, *)
(* v is its value in hundredths.  Every comparison with NaN is false.  A   *)
(* random roll is a number of hundredths in 0..99 (never NaN).             *)
(***************************************************************************)
F32(hundredths) == [nan |-> FALSE, v |-> hundredths]

NaN == [nan |-> TRUE, v |-> 0]

FLt(a, b) == ~a.nan /\ ~b.nan /\ a.v < b.v

FGt(a, b) == ~a.nan /\ ~b.nan /\ a.v > b.v

\* 0.8 - 0.6 * target_difficulty
straight_chance(target_difficulty) ==
    IF target_difficulty.nan THEN NaN
    ELSE F32(80 - (6 * target_difficulty.v) \div 10)

(***************************************************************************)
(* TrackGeneratorConfig::validate: TRUE when no check panics.              *)
(***************************************************************************)
validate(c, max_possible) ==
    /\ ~(c.min_segments < MIN_VALID_SEGMENTS)
    /\ ~(c.max_segments < MIN_VALID_SEGMENTS)
    /\ ~(c.max_segments > max_possible)
    /\ ~(c.min_segments > c.max_segments)
    /\ ~(FLt(c.target_difficulty, F32(0)) \/ FGt(c.target_difficulty, F32(100)))

(***************************************************************************)
(* The helpers of try_generate_track                                       *)
(***************************************************************************)
has_adjacent_visited_mut_none(pos, previous_pos, visited) == FALSE

has_adjacent_visited(pos, previous_pos, visited) ==
    LET neighbors == << <<pos[1] + 1, pos[2]>>, <<pos[1] - 1, pos[2]>>,
                        <<pos[1], pos[2] + 1>>, <<pos[1], pos[2] - 1>> >>
    IN \E k \in 1..4 :
          /\ neighbors[k] # previous_pos
          /\ neighbors[k] # IVec2_ZERO
          /\ neighbors[k] \in visited

get_valid_moves_mut_revisit(current_pos, current_dir, visited, half_width, half_height) ==
    LET next_pos == get_next_grid_position(current_pos, current_dir)
    IN IF Abs(next_pos[1]) > half_width \/ Abs(next_pos[2]) > half_height
       THEN <<>>
       ELSE SegmentOrder

get_valid_moves(current_pos, current_dir, visited, half_width, half_height) ==
    LET next_pos == get_next_grid_position(current_pos, current_dir)
    IN IF Abs(next_pos[1]) > half_width \/ Abs(next_pos[2]) > half_height
       THEN <<>>
       ELSE IF next_pos \in visited /\ next_pos # IVec2_ZERO
       THEN <<>>
       ELSE IF has_adjacent_visited(next_pos, current_pos, visited)
       THEN <<>>
       ELSE SegmentOrder

\* "None", or the closing segment
can_close_loop(current_pos, current_dir, visited) ==
    LET next_pos == get_next_grid_position(current_pos, current_dir)
        first_cell_after_origin == <<0, 1>>
        neighbors == << <<0, 1>>, <<0, -1>>, <<1, 0>>, <<-1, 0>> >>
        closing == { k \in 1..3 :
                        get_exit_direction(current_dir, SegmentOrder[k]) = "Up" }
    IN IF next_pos # IVec2_ZERO
       THEN "None"
       ELSE IF \E k \in 1..4 :
                  /\ neighbors[k] # current_pos
                  /\ neighbors[k] # first_cell_after_origin
                  /\ neighbors[k] \in visited
       THEN "None"
       ELSE IF closing = {}
       THEN "None"
       ELSE SegmentOrder[CHOOSE k \in closing : \A j \in closing : k <= j]

\* choose_segment: roll and corner_roll are the two values it draws from the
\* RNG (corner_roll is drawn only when Straight is not returned).
choose_segment(roll, corner_roll, valid_moves, target_difficulty) ==
    IF FLt(F32(roll), straight_chance(target_difficulty)) /\ SeqContains(valid_moves, "Straight")
    THEN "Straight"
    ELSE IF FLt(F32(corner_roll), F32(50))
    THEN IF SeqContains(valid_moves, "CornerLeft") THEN "CornerLeft"
         ELSE IF SeqContains(valid_moves, "CornerRight") THEN "CornerRight"
         ELSE valid_moves[1]
    ELSE IF SeqContains(valid_moves, "CornerRight") THEN "CornerRight"
         ELSE IF SeqContains(valid_moves, "CornerLeft") THEN "CornerLeft"
         ELSE valid_moves[1]

\* How many RNG values one call of choose_segment consumes.
choose_draws(roll, valid_moves, target_difficulty) ==
    IF FLt(F32(roll), straight_chance(target_difficulty)) /\ SeqContains(valid_moves, "Straight")
    THEN 1 ELSE 2


(***************************************************************************)
(* finalize_track.  The prop indices it also draws are left out.           *)
(***************************************************************************)
ROAD_WIDTH == 50

ROAD_SEGMENT_LENGTH == ROAD_WIDTH

Min2(a, b) == IF a < b THEN a ELSE b

Max2(a, b) == IF a > b THEN a ELSE b

NoBox == [min_x |-> 0, max_x |-> 0, min_y |-> 0, max_y |-> 0]

RECURSIVE BoundingBoxFrom(_, _, _, _, _)

\* The loop over the layout from segment k on: step to the next grid
\* position, widen the box, turn.  pos, dir and b are the values of the
\* loop's variables at the top of the iteration, each evaluated once.
BoundingBoxFrom(layout, k, current_pos, current_dir, box) ==
    IF k > Len(layout) THEN box
    ELSE CHOOSE final \in
            { BoundingBoxFrom(layout, k + 1, step.next_pos, step.next_dir, step.box) :
                step \in
                  { LET next_pos == get_next_grid_position(pos, dir)
                    IN  [ next_pos |-> next_pos,
                          next_dir |-> get_exit_direction(dir, layout[k]),
                          box |-> [ min_x |-> Min2(b.min_x, next_pos[1]),
                                    max_x |-> Max2(b.max_x, next_pos[1]),
                                    min_y |-> Min2(b.min_y, next_pos[2]),
                                    max_y |-> Max2(b.max_y, next_pos[2]) ] ] :
                    pos \in {current_pos}, dir \in {current_dir}, b \in {box} } } : TRUE

\* center = (min + max) as f32 / 2.0 and starting_point = -center *
\* ROAD_SEGMENT_LENGTH: halves of small integers times an even length,
\* exact in f32.
finalize_track(layout) ==
    LET box == BoundingBoxFrom(layout, 1, IVec2_ZERO, "Up", NoBox)
    IN  [ layout |-> layout,
          starting_point |-> << (-(box.min_x + box.max_x) * ROAD_SEGMENT_LENGTH) \div 2,
                                (-(box.min_y + box.max_y) * ROAD_SEGMENT_LENGTH) \div 2 >> ]

(***************************************************************************)
(* try_generate_track.  The record `attempt` holds its locals; pc is       *)
(* "forcing" (the for loop of the two forced segments), "loop" (the while  *)
(* loop) or "returned"; result is "pending", "None" or "Some".             *)
(***************************************************************************)
AttemptEntry ==
    [ layout |-> <<>>,
      visited |-> {IVec2_ZERO},
      path |-> << <<IVec2_ZERO, "Up">> >>,
      current_pos |-> IVec2_ZERO,
      current_dir |-> "Up",
      backtrack_count |-> 0,
      pc |-> "forcing",
      result |-> "pending",
      starting_point |-> IVec2_ZERO,
      longest |-> 0 ]     \* history: the largest layout.len() so far

\* One pass of `for _ in 0..2`
ForcedStraight(a) ==
    LET next_pos == get_next_grid_position(a.current_pos, a.current_dir)
    IN [ a EXCEPT !.layout = Append(a.layout, "Straight"),
                  !.visited = a.visited \cup {next_pos},
                  !.current_pos = next_pos,
                  !.path = Append(a.path, <<next_pos, a.current_dir>>),
                  !.longest = Max2(a.longest, Len(a.layout) + 1),
                  !.pc = IF Len(a.layout) + 1 = 2 THEN "loop" ELSE "forcing" ]

WhileCondition_mut_inclusive(a, c) ==
    Len(a.layout) <= c.max_segments /\ a.backtrack_count < max_backtracks

WhileCondition(a, c) ==
    Len(a.layout) < c.max_segments /\ a.backtrack_count < max_backtracks

ClosingSegment_mut_one_early(a, c) ==
    IF Len(a.layout) + 1 >= c.min_segments
    THEN can_close_loop(a.current_pos, a.current_dir, a.visited)
    ELSE "None"

\* The closing segment found by lines 208-213, or "None"
ClosingSegment(a, c) ==
    IF Len(a.layout) >= c.min_segments
    THEN can_close_loop(a.current_pos, a.current_dir, a.visited)
    ELSE "None"

ValidMoves(a, grid) ==
    get_valid_moves(a.current_pos, a.current_dir, a.visited, grid[1], grid[2])

\* layout.push(closing_segment); return Some(finalize_track(layout, rng))
CloseLoop(a, closing_segment) ==
    [ a EXCEPT !.layout = Append(a.layout, closing_segment),
               !.pc = "returned",
               !.result = "Some",
               !.longest = Max2(a.longest, Len(a.layout) + 1),
               !.starting_point =
                   finalize_track(Append(a.layout, closing_segment)).starting_point ]

ReturnNone(a) == [ a EXCEPT !.pc = "returned", !.result = "None" ]

Backtrack_mut_keeps_visited(a) ==
    LET popped == SubSeq(a.path, 1, Len(a.path) - 1)
        last == popped[Len(popped)]
    IN [ a EXCEPT !.layout = SubSeq(a.layout, 1, Len(a.layout) - 1),
                  !.path = popped,
                  !.current_pos = last[1],
                  !.current_dir = last[2],
                  !.backtrack_count = a.backtrack_count + 1 ]

Backtrack_mut_uncounted(a) ==
    LET popped == SubSeq(a.path, 1, Len(a.path) - 1)
        last == popped[Len(popped)]
    IN [ a EXCEPT !.layout = SubSeq(a.layout, 1, Len(a.layout) - 1),
                  !.path = popped,
                  !.visited = a.visited \ {a.current_pos},
                  !.current_pos = last[1],
                  !.current_dir = last[2] ]

Backtrack(a) ==
    LET popped == SubSeq(a.path, 1, Len(a.path) - 1)
        last == popped[Len(popped)]
    IN [ a EXCEPT !.layout = SubSeq(a.layout, 1, Len(a.layout) - 1),
                  !.path = popped,
                  !.visited = a.visited \ {a.current_pos},
                  !.current_pos = last[1],
                  !.current_dir = last[2],
                  !.backtrack_count = a.backtrack_count + 1 ]

ApplyMove(a, segment) ==
    LET next_pos == get_next_grid_position(a.current_pos, a.current_dir)
        next_dir == get_exit_direction(a.current_dir, segment)
    IN [ a EXCEPT !.layout = Append(a.layout, segment),
                  !.visited = a.visited \cup {next_pos},
                  !.current_pos = next_pos,
                  !.current_dir = next_dir,
                  !.path = Append(a.path, <<next_pos, next_dir>>),
                  !.longest = Max2(a.longest, Len(a.layout) + 1) ]

LoopBranch_mut_pops_forced(a, c, grid) ==
    IF ~WhileCondition(a, c) THEN "exhausted"
    ELSE IF ClosingSegment(a, c) # "None" THEN "close"
    ELSE IF ValidMoves(a, grid) = <<>>
         THEN IF Len(a.layout) < 2 THEN "stuck" ELSE "backtrack"
    ELSE "move"

\* Which branch one evaluation of the while loop takes.
LoopBranch(a, c, grid) ==
    IF ~WhileCondition(a, c) THEN "exhausted"
    ELSE IF ClosingSegment(a, c) # "None" THEN "close"
    ELSE IF ValidMoves(a, grid) = <<>>
         THEN IF Len(a.layout) <= 2 THEN "stuck" ELSE "backtrack"
    ELSE "move"

\* One evaluation of the while loop (condition and body), given the two
\* values the RNG would yield next.
LoopIteration(a, c, grid, roll, corner_roll) ==
    LET branch == LoopBranch(a, c, grid)
    IN CASE branch = "exhausted" -> ReturnNone(a)
         [] branch = "close" -> CloseLoop(a, ClosingSegment(a, c))
         [] branch = "stuck" -> ReturnNone(a)
         [] branch = "backtrack" -> Backtrack(a)
         [] branch = "move" ->
              ApplyMove(a, choose_segment(roll, corner_roll, ValidMoves(a, grid),
                                          c.target_difficulty))

\* The RNG values the model draws from.
Rolls == {0, 50, 99}

(***************************************************************************)
(* The values the variables of a part keep while another part runs.        *)
(***************************************************************************)
IdleConfig ==
    [ min_segments |-> MIN_VALID_SEGMENTS, max_segments |-> MIN_VALID_SEGMENTS,
      target_difficulty |-> F32(50), seed |-> 0 ]

OuterIdle ==
    /\ config = IdleConfig
    /\ rngStream = {}
    /\ call = 1
    /\ pc = "returned"
    /\ fallback_i = 0
    /\ attemptsRun = {}
    /\ found = {}
    /\ result = [k \in 1..2 |-> [kind |-> "pending", layout |-> <<>>, batch |-> -1]]
    /\ batchesRun = [k \in 1..2 |-> <<>>]

GenIdle ==
    /\ attempt = AttemptEntry
    /\ genConfig = IdleConfig
    /\ genGrid = <<HalfWidth, HalfHeight>>

\* No RaceState resource has been inserted yet.
NoRaceState ==
    [ status |-> "Absent", car_last_y |-> 0, elapsed |-> 0, paused |-> FALSE,
      final_time |-> <<>>, is_on_road |-> TRUE ]

\* No car entity exists.
NoCar == [x |-> 0, y |-> 0, quarters |-> 0]

\* The positions the car is sampled at: on each pair of neighbouring
\* segments, on the first segment, across the edge of the road, and off
\* the road.
CarPositions ==
    { <<0, 0>>, <<0, 25>>, <<25, 50>>, <<50, 25>>, <<50, -25>>, <<25, -50>>,
      <<0, -25>>, <<-25, 0>>, <<-50, 0>> }

\* The Update systems of the Playing state that write the race status, the
\* Visited markers or the next state, and the car systems they read from.
RaceScenario ==
    [ playing |-> { "handle_input", "move_car",
                    "update_segment_visited_status", "ApplyDeferred",
                    "check_finish_line_crossing", "check_start_line_crossing",
                    "check_race_finished", "handle_pause_input" },
      escape |-> BOOLEAN,
      rotation_input |-> {0, 1},
      acceleration_input |-> {0},
      space |-> {FALSE},
      time_delta |-> 0,
      positions |-> CarPositions,
      powerups |-> {},
      first_applied |-> "update_nos_boost" ]

\* The systems of the timer added, with a player who neither steers nor
\* presses Escape and a car without a boost: handle_input, update_nos_boost
\* and handle_pause_input then change nothing and are not followed.
TickScenario ==
    [ playing |-> (RaceScenario.playing \ { "handle_input", "handle_pause_input" })
                    \cup { "handle_off_road_logic", "tick_race_timer" },
      escape |-> {FALSE},
      rotation_input |-> {0},
      acceleration_input |-> {0},
      space |-> {FALSE},
      time_delta |-> 0,
      positions |-> CarPositions,
      powerups |-> {},
      first_applied |-> "update_nos_boost" ]

CAR_ACCELERATION == 1000

\* The level of the boost: the car drives straight over a stretch with two
\* powerups, with the throttle and the Space key pressed or not in each
\* frame.  Only the systems of the car and of the powerups are followed.
\* Frame times are in milliseconds; a quarter and three quarters of a second
\* keep every f32 product of the car's physics exact.  The sync point
\* applies the Commands of the systems in the order of the schedule's
\* systems, which the code does not fix between update_nos_boost and
\* check_powerup_collision.
BoostPlaying ==
    { "handle_input", "update_nos_boost", "ApplyDeferredCar", "move_car",
      "check_powerup_collision" }

BoostScenario(time_delta, first_applied) ==
    [ playing |-> BoostPlaying,
      escape |-> {FALSE},
      rotation_input |-> {0},
      acceleration_input |-> {0, CAR_ACCELERATION},
      space |-> BOOLEAN,
      time_delta |-> time_delta,
      positions |-> { <<0, 0>>, <<0, 25>>, <<0, -25>> },
      powerups |-> { <<0, 25>>, <<0, -25>> },
      first_applied |-> first_applied ]

BoostScenarios ==
    { BoostScenario(time_delta, first_applied) :
        time_delta \in {250, 750},
        first_applied \in {"update_nos_boost", "check_powerup_collision"} }

\* Option<NosBoostAvailable>: None
NoBoost == <<>>

\* No pause is going on.
NotPaused == <<>>

\* The app as it starts: the start menu, nothing spawned.
AppStart ==
    /\ gameState = "StartMenu"
    /\ nextState = "None"
    /\ resumeFlag = FALSE
    /\ entities = FALSE
    /\ race_state = NoRaceState
    /\ car = NoCar
    /\ visitedSegs = {}
    /\ commands = {}
    /\ ranSystems = {}
    /\ finishCheck = "none"
    /\ completedNow = FALSE
    /\ panicked = FALSE
    /\ pausedRace = NotPaused
    /\ nos_boost = NoBoost
    /\ velocity = 0
    /\ powerups = {}
    /\ deferred = <<>>
    /\ space_pressed = FALSE

RaceIdle == AppStart /\ scenario = RaceScenario

(***************************************************************************)
(* GenSpec: one call of try_generate_track with any RNG.                   *)
(***************************************************************************)
Difficulties == {F32(0), F32(50), F32(100), NaN}

GenConfigs ==
    { [ min_segments |-> mn, max_segments |-> mx, target_difficulty |-> d ] :
        mn \in {4, 9, 10, 11}, mx \in {9, 10, 12, 14}, d \in Difficulties }

GenGrids == { <<HalfWidth, HalfHeight>>, <<HalfWidth, LowHalfHeight>> }

GenInit ==
    /\ genConfig \in { c \in GenConfigs : validate(c, max_grid_segments) }
    /\ genGrid \in GenGrids
    /\ attempt = AttemptEntry
    /\ OuterIdle
    /\ RaceIdle

GenForce ==
    /\ attempt.pc = "forcing"
    /\ attempt' = ForcedStraight(attempt)
    /\ UNCHANGED <<genConfig, genGrid>>
    /\ UNCHANGED outerVars
    /\ UNCHANGED raceVars
    /\ UNCHANGED boostVars

GenClose ==
    /\ attempt.pc = "loop"
    /\ LoopBranch(attempt, genConfig, genGrid) = "close"
    /\ attempt' = LoopIteration(attempt, genConfig, genGrid, 0, 0)
    /\ UNCHANGED <<genConfig, genGrid>>
    /\ UNCHANGED outerVars
    /\ UNCHANGED raceVars
    /\ UNCHANGED boostVars

GenBacktrack ==
    /\ attempt.pc = "loop"
    /\ LoopBranch(attempt, genConfig, genGrid) = "backtrack"
    /\ attempt' = LoopIteration(attempt, genConfig, genGrid, 0, 0)
    /\ UNCHANGED <<genConfig, genGrid>>
    /\ UNCHANGED outerVars
    /\ UNCHANGED raceVars
    /\ UNCHANGED boostVars

GenStuck ==
    /\ attempt.pc = "loop"
    /\ LoopBranch(attempt, genConfig, genGrid) = "stuck"
    /\ attempt' = LoopIteration(attempt, genConfig, genGrid, 0, 0)
    /\ UNCHANGED <<genConfig, genGrid>>
    /\ UNCHANGED outerVars
    /\ UNCHANGED raceVars
    /\ UNCHANGED boostVars

GenExhausted ==
    /\ attempt.pc = "loop"
    /\ LoopBranch(attempt, genConfig, genGrid) = "exhausted"
    /\ attempt' = LoopIteration(attempt, genConfig, genGrid, 0, 0)
    /\ UNCHANGED <<genConfig, genGrid>>
    /\ UNCHANGED outerVars
    /\ UNCHANGED raceVars
    /\ UNCHANGED boostVars

GenMove ==
    /\ attempt.pc = "loop"
    /\ LoopBranch(attempt, genConfig, genGrid) = "move"
    /\ \E roll \in Rolls, corner_roll \in Rolls :
          attempt' = LoopIteration(attempt, genConfig, genGrid, roll, corner_roll)
    /\ UNCHANGED <<genConfig, genGrid>>
    /\ UNCHANGED outerVars
    /\ UNCHANGED raceVars
    /\ UNCHANGED boostVars

GenNext ==
    \/ GenForce
    \/ GenClose
    \/ GenBacktrack
    \/ GenStuck
    \/ GenExhausted
    \/ GenMove

GenSpec == GenInit /\ [][GenNext]_vars

\* The call keeps running: an iteration that can be taken is taken.
GenLiveSpec == GenInit /\ [][GenNext]_vars /\ WF_vars(GenNext)


(***************************************************************************)
(* generate_random_track.                                                  *)
(*                                                                         *)
(* An RNG stream is a finite sequence of rolls read cyclically.            *)
(* derive_seed (a hash of the batch's seed and the attempt index) and      *)
(* ChaCha8Rng::seed_from_u64 are an arbitrary fixed function from          *)
(* (base_seed, attempt) to a stream: rngStream records the stream of a     *)
(* seed the first time an attempt is run with it, and every later attempt  *)
(* with that seed reads the same stream.                                   *)
(***************************************************************************)
\* 1000 attempts per batch in the code
AttemptsPerBatch == 2

\* 5 fallback batches in the code
FallbackBatches == 2

\* The seed is a u64 in the code; the model's seeds wrap at 2^SeedBits.
SeedBits == 16

FALLBACK_SEED_STEP == 10000

SeedModulus == 2 ^ SeedBits

\* config.seed.wrapping_add((fallback_i * 10000) as u64); batch 0 uses config.seed
batch_seed(seed, i) == (seed + i * FALLBACK_SEED_STEP) % SeedModulus

derive_seed(base_seed, attempt_index) == <<base_seed, attempt_index>>

StreamAt(stream, k) == stream[(k % Len(stream)) + 1]

\* corner-right, straight, corner-right, straight, straight, corner-right, straight
RightStream == <<99, 99, 0, 99, 99, 0, 0, 99, 99, 0>>

\* the mirror image
LeftStream == <<99, 0, 0, 99, 0, 0, 0, 99, 0, 0>>

\* straight ahead until the grid ends
StraightStream == <<0>>

Streams == {RightStream, LeftStream, StraightStream}

RECURSIVE RunLoop(_, _, _, _, _)
\* The while loop of try_generate_track run to its return, reading `stream`
\* from position k.
RunLoop(a, c, grid, stream, k) ==
    IF a.pc = "returned" THEN a
    ELSE LET roll == StreamAt(stream, k)
             corner_roll == StreamAt(stream, k + 1)
             used == IF LoopBranch(a, c, grid) = "move"
                     THEN choose_draws(roll, ValidMoves(a, grid), c.target_difficulty)
                     ELSE 0
         IN RunLoop(LoopIteration(a, c, grid, roll, corner_roll), c, grid, stream, k + used)

NoTrack == [kind |-> "None", layout |-> <<>>]

\* try_generate_track(&mut rng, config, half_width, half_height)
try_generate_track(stream, c, grid) ==
    LET a == RunLoop(ForcedStraight(ForcedStraight(AttemptEntry)), c, grid, stream, 0)
    IN IF a.result = "Some" THEN [kind |-> "Some", layout |-> a.layout] ELSE NoTrack

OuterGrid == <<HalfWidth, HalfHeight>>

Seeded(ss) == \E e \in rngStream : e.seed = ss

StreamOf(ss) == (CHOOSE e \in rngStream : e.seed = ss).stream

AttemptIndices == 0..(AttemptsPerBatch - 1)

\* What find_map_any may return once the attempts in `ran` have finished and
\* `hits` are the tracks they returned: any hit; None only when every
\* attempt has run without one.
find_map_any_mut_first_finished(ran, hits) ==
    IF hits # {} THEN hits
    ELSE IF ran # {} THEN {NoTrack}
    ELSE {}

find_map_any(ran, hits) ==
    IF hits # {} THEN hits
    ELSE IF ran = AttemptIndices THEN {NoTrack}
    ELSE {}

has_next_fallback_mut_one_short(i) == i < FallbackBatches - 1

\* for fallback_i in 1..=5
has_next_fallback(i) == i < FallbackBatches

Pending == [kind |-> "pending", layout |-> <<>>, batch |-> -1]

Panic == [kind |-> "panic", layout |-> <<>>, batch |-> -1]

Difficulty_OutOfRange == {F32(-10), F32(110)}

OuterConfigs ==
    { [ min_segments |-> sz[1], max_segments |-> sz[2],
        target_difficulty |-> d, seed |-> sd ] :
        sz \in { <<4, 10>>, <<4, max_grid_segments>>, <<3, 10>>, <<4, 3>>, <<12, 10>>,
                 <<4, max_grid_segments + 1>> },
        d \in {F32(0), F32(100)} \cup Difficulty_OutOfRange,
        sd \in {42, SeedModulus - 15000} }

\* generate_random_track is about to be called for the first time.
OuterStart ==
    /\ rngStream = {}
    /\ call = 1
    /\ pc = "validate"
    /\ fallback_i = 0
    /\ attemptsRun = {}
    /\ found = {}
    /\ result = [k \in 1..2 |-> Pending]
    /\ batchesRun = [k \in 1..2 |-> <<>>]
    /\ GenIdle
    /\ RaceIdle

OuterInit == config \in OuterConfigs /\ OuterStart

\* config.validate() returns: the first batch starts
ValidateOk ==
    /\ pc = "validate"
    /\ validate(config, max_grid_segments)
    /\ pc' = "batch"
    /\ fallback_i' = 0
    /\ batchesRun' = [batchesRun EXCEPT ![call] = <<0>>]
    /\ UNCHANGED <<config, rngStream, call, attemptsRun, found, result>>
    /\ UNCHANGED genVars
    /\ UNCHANGED raceVars
    /\ UNCHANGED boostVars

\* config.validate() panics
ValidatePanic ==
    /\ pc = "validate"
    /\ ~validate(config, max_grid_segments)
    /\ pc' = "returned"
    /\ result' = [result EXCEPT ![call] = Panic]
    /\ UNCHANGED <<config, rngStream, call, fallback_i, attemptsRun, found, batchesRun>>
    /\ UNCHANGED genVars
    /\ UNCHANGED raceVars
    /\ UNCHANGED boostVars

\* One attempt of the current batch runs to its end (in any order with the
\* others; after a hit the remaining attempts may or may not still run).
RunAttempt ==
    /\ pc = "batch"
    /\ \E i \in AttemptIndices \ attemptsRun :
         LET attempt_seed == derive_seed(batch_seed(config.seed, fallback_i), i)
         IN \E stream \in (IF Seeded(attempt_seed) THEN {StreamOf(attempt_seed)}
                                                 ELSE Streams) :
              LET track == try_generate_track(stream, config, OuterGrid)
              IN /\ rngStream' = rngStream \cup {[seed |-> attempt_seed, stream |-> stream]}
                 /\ attemptsRun' = attemptsRun \cup {i}
                 /\ found' = IF track.kind = "Some" THEN found \cup {track} ELSE found
    /\ UNCHANGED <<config, call, pc, fallback_i, result, batchesRun>>
    /\ UNCHANGED genVars
    /\ UNCHANGED raceVars
    /\ UNCHANGED boostVars

\* run_batch returns Some(track): generate_random_track returns it
BatchSome ==
    /\ pc = "batch"
    /\ \E track \in find_map_any(attemptsRun, found) :
          /\ track.kind = "Some"
          /\ result' = [result EXCEPT ![call] =
                           [kind |-> "Some", layout |-> track.layout, batch |-> fallback_i]]
    /\ pc' = "returned"
    /\ UNCHANGED <<config, rngStream, call, fallback_i, attemptsRun, found, batchesRun>>
    /\ UNCHANGED genVars
    /\ UNCHANGED raceVars
    /\ UNCHANGED boostVars

\* run_batch returns None and a fallback seed is left: the next batch starts
BatchNoneRetry ==
    /\ pc = "batch"
    /\ NoTrack \in find_map_any(attemptsRun, found)
    /\ has_next_fallback(fallback_i)
    /\ fallback_i' = fallback_i + 1
    /\ batchesRun' = [batchesRun EXCEPT ![call] = Append(@, fallback_i + 1)]
    /\ attemptsRun' = {}
    /\ found' = {}
    /\ UNCHANGED <<config, rngStream, call, pc, result>>
    /\ UNCHANGED genVars
    /\ UNCHANGED raceVars
    /\ UNCHANGED boostVars

\* the last fallback batch returns None: generate_random_track returns None
BatchNoneGiveUp ==
    /\ pc = "batch"
    /\ NoTrack \in find_map_any(attemptsRun, found)
    /\ ~has_next_fallback(fallback_i)
    /\ result' = [result EXCEPT ![call] = [kind |-> "None", layout |-> <<>>, batch |-> -1]]
    /\ pc' = "returned"
    /\ UNCHANGED <<config, rngStream, call, fallback_i, attemptsRun, found, batchesRun>>
    /\ UNCHANGED genVars
    /\ UNCHANGED raceVars
    /\ UNCHANGED boostVars

\* The caller calls generate_random_track again with the same config.
CallAgain ==
    /\ pc = "returned"
    /\ call = 1
    /\ call' = 2
    /\ pc' = "validate"
    /\ fallback_i' = 0
    /\ attemptsRun' = {}
    /\ found' = {}
    /\ UNCHANGED <<config, rngStream, result, batchesRun>>
    /\ UNCHANGED genVars
    /\ UNCHANGED raceVars
    /\ UNCHANGED boostVars

OuterNext ==
    \/ ValidateOk
    \/ ValidatePanic
    \/ RunAttempt
    \/ BatchSome
    \/ BatchNoneRetry
    \/ BatchNoneGiveUp
    \/ CallAgain

OuterSpec == OuterInit /\ [][OuterNext]_vars

(***************************************************************************)
(* ValidateSpec: the first statement of generate_random_track,             *)
(* config.validate(), for configs on and around every limit.               *)
(***************************************************************************)
ValidateConfigs ==
    { [ min_segments |-> mn, max_segments |-> mx,
        target_difficulty |-> d, seed |-> 42 ] :
        mn \in {0, 3, 4, 5, 10, 11},
        mx \in {3, 4, 10, max_grid_segments - 1, max_grid_segments,
                max_grid_segments + 1},
        d \in {F32(-1), F32(0), F32(50), F32(100), F32(101), NaN} }

ValidateInit == config \in ValidateConfigs /\ OuterStart

ValidateNext ==
    \/ ValidateOk
    \/ ValidatePanic

ValidateSpec == ValidateInit /\ [][ValidateNext]_vars

(***************************************************************************)
(* Walking a layout from the grid origin heading Up, as finalize_track and *)
(* validate_track_layout do: segment k occupies the cell entered, then the *)
(* direction is updated by get_exit_direction.                             *)
(***************************************************************************)
RECURSIVE WalkState(_, _)
\* <<cell of segment k, direction after segment k>>; k = 0 is the start.
WalkState(layout, k) ==
    IF k = 0 THEN <<IVec2_ZERO, "Up">>
    ELSE LET before == WalkState(layout, k - 1)
         IN << get_next_grid_position(before[1], before[2]),
               get_exit_direction(before[2], layout[k]) >>

WalkCell(layout, k) == WalkState(layout, k)[1]

WalkDir(layout, k) == WalkState(layout, k)[2]

Adjacent(p, q) == Abs(p[1] - q[1]) + Abs(p[2] - q[2]) = 1

Returned == attempt.pc = "returned" /\ attempt.result = "Some"

\* C3: a returned layout, walked from the origin heading Up, enters pairwise
\* distinct cells, is at the origin exactly at its last segment, and leaves
\* that segment heading Up.
C3_SimpleClosedLoop ==
    Returned =>
        LET l == attempt.layout
            n == Len(l)
        IN /\ \A i, j \in 1..n : i # j => WalkCell(l, i) # WalkCell(l, j)
           /\ WalkCell(l, n) = IVec2_ZERO
           /\ \A i \in 1..(n - 1) : WalkCell(l, i) # IVec2_ZERO
           /\ WalkDir(l, n) = "Up"

\* A loop was closed after the search had to backtrack.
C3_Witness == Returned /\ attempt.backtrack_count > 0

\* C5: every cell of a returned track is inside the grid, and two cells that
\* are 4-neighbours are consecutive in the loop (cell n, the origin, and
\* cell 1 count as consecutive).
C5_InBoundsNoParallel ==
    Returned =>
        LET l == attempt.layout
            n == Len(l)
        IN /\ \A i \in 1..n :
                /\ Abs(WalkCell(l, i)[1]) <= genGrid[1]
                /\ Abs(WalkCell(l, i)[2]) <= genGrid[2]
           /\ \A i, j \in 1..n :
                (i < j /\ Adjacent(WalkCell(l, i), WalkCell(l, j)))
                    => (j = i + 1 \/ (i = 1 /\ j = n))

\* A returned loop that reaches a side edge and the top edge of the grid.
C5_Witness ==
    /\ Returned
    /\ \E i \in 1..Len(attempt.layout) :
          Abs(WalkCell(attempt.layout, i)[1]) = genGrid[1]
    /\ \E i \in 1..Len(attempt.layout) :
          WalkCell(attempt.layout, i)[2] = genGrid[2]

\* C8: the length of a returned layout lies in [min_segments, max_segments].
C8_LengthInRange ==
    Returned =>
        /\ genConfig.min_segments <= Len(attempt.layout)
        /\ Len(attempt.layout) <= genConfig.max_segments

\* A loop of exactly max_segments segments was returned.
C8_Witness == Returned /\ Len(attempt.layout) = genConfig.max_segments


(***************************************************************************)
(* Claims about generate_random_track (OuterSpec)                          *)
(***************************************************************************)
BothReturned == call = 2 /\ pc = "returned"

AttemptSeed(b, i) == derive_seed(batch_seed(config.seed, b), i)

\* The track attempt i of batch b returns (its stream is known once it ran).
Outcome(b, i) == try_generate_track(StreamOf(AttemptSeed(b, i)), config, OuterGrid)

AllRanAndFailed(b) ==
    \A i \in AttemptIndices : Seeded(AttemptSeed(b, i)) /\ Outcome(b, i).kind = "None"

UpTo(b) == [k \in 1..(b + 1) |-> k - 1]

\* C6: two calls with the same config and seed return the same layout.
C6_SameLayout ==
    (BothReturned /\ result[1].kind = "Some" /\ result[2].kind = "Some")
        => result[1].layout = result[2].layout

\* C7: two calls with the same config and seed agree on panic / None / Some
\* and on the batch that produced the track.
C7_SameOutcome ==
    BothReturned =>
        /\ result[1].kind = result[2].kind
        /\ result[1].batch = result[2].batch

\* Both calls succeeded in the same fallback batch with different tracks.
C7_Witness ==
    /\ BothReturned
    /\ result[1].kind = "Some"
    /\ result[1].batch > 0
    /\ result[1].layout # result[2].layout

\* What the claim says is rejected.
OutsideUnitInterval(d) == ~(~d.nan /\ 0 <= d.v /\ d.v <= 100)

ClaimedInvalid(c) ==
    \/ c.min_segments < 4
    \/ c.max_segments > max_grid_segments
    \/ c.min_segments > c.max_segments
    \/ OutsideUnitInterval(c.target_difficulty)

\* C9: the call panics in validate(), with no batch started, exactly for
\* the configs with min_segments < 4, max_segments > max_grid_segments(),
\* min_segments > max_segments or target_difficulty outside [0,1]; for
\* every other config validate() returns and the first batch starts.
C9_RejectsInvalid ==
    pc # "validate" =>
        /\ (result[1].kind = "panic") <=> ClaimedInvalid(config)
        /\ ClaimedInvalid(config) => batchesRun[1] = <<>> /\ attemptsRun = {}
        /\ ~ClaimedInvalid(config) => batchesRun[1] = <<0>>

\* C10: a call that does not panic returns None exactly when every attempt
\* of every batch returned None; otherwise its track is the track of an
\* attempt of the first batch (base, fallback 1, ...) in which an attempt
\* succeeded, and no later batch was started.
C10_FirstSuccessfulBatch ==
    \A k \in 1..2 :
        /\ (result[k].kind \notin {"pending", "panic"}) => result[k].kind \in {"None", "Some"}
        /\ result[k].kind = "None" =>
              /\ \A b \in 0..FallbackBatches : AllRanAndFailed(b)
              /\ batchesRun[k] = UpTo(FallbackBatches)
        /\ result[k].kind = "Some" =>
              /\ \E i \in AttemptIndices :
                    /\ Seeded(AttemptSeed(result[k].batch, i))
                    /\ Outcome(result[k].batch, i) =
                           [kind |-> "Some", layout |-> result[k].layout]
              /\ \A b \in 0..(result[k].batch - 1) : AllRanAndFailed(b)
              /\ batchesRun[k] = UpTo(result[k].batch)

\* A track came from the last fallback batch, whose seed wrapped around.
C10_Witness ==
    /\ result[1].kind = "Some"
    /\ result[1].batch = FallbackBatches
    /\ batch_seed(config.seed, result[1].batch) < config.seed


(***************************************************************************)
(* Geometry of the track and the car (src/road/helpers.rs,                 *)
(* src/road/systems.rs, src/car/helpers.rs, src/collision/helpers.rs).     *)
(* Lengths are whole pixels.  A rotation is a number of counter-clockwise  *)
(* quarter turns; the extra 45 degrees of a corner's rotation is kept in   *)
(* its sector test.                                                        *)
(***************************************************************************)
CAR_WIDTH == 10

CAR_HEIGHT == 18

VAdd(p, q) == <<p[1] + q[1], p[2] + q[2]>>

VSub(p, q) == <<p[1] - q[1], p[2] - q[2]>>

VScale(p, k) == <<p[1] * k, p[2] * k>>

get_position_offset(direction) ==
    CASE direction = "Up"    -> <<0, ROAD_SEGMENT_LENGTH>>
      [] direction = "Down"  -> <<0, -ROAD_SEGMENT_LENGTH>>
      [] direction = "Left"  -> <<-ROAD_SEGMENT_LENGTH, 0>>
      [] direction = "Right" -> <<ROAD_SEGMENT_LENGTH, 0>>

\* Quarter turns counter-clockwise: 0, -90 (= 270), 180 and 90 degrees.
get_rotation(direction) ==
    CASE direction = "Up"    -> 0
      [] direction = "Right" -> 3
      [] direction = "Down"  -> 2
      [] direction = "Left"  -> 1

get_direction_vector(direction) ==
    CASE direction = "Up"    -> <<0, 1>>
      [] direction = "Down"  -> <<0, -1>>
      [] direction = "Left"  -> <<-1, 0>>
      [] direction = "Right" -> <<1, 0>>

RotateQuarters(p, quarters) ==
    CASE quarters % 4 = 0 -> p
      [] quarters % 4 = 1 -> <<-p[2], p[1]>>
      [] quarters % 4 = 2 -> <<-p[1], -p[2]>>
      [] quarters % 4 = 3 -> <<p[2], -p[1]>>

\* The inverse of the transform's translation and rotation.
world_to_local_2d(transform, world_point) ==
    RotateQuarters(VSub(world_point, transform.translation), 4 - transform.quarters)

is_point_in_straight(local_pos) ==
    LET half_w == ROAD_WIDTH \div 2
        half_h == ROAD_SEGMENT_LENGTH \div 2
    IN  /\ local_pos[1] >= -half_w
        /\ local_pos[1] <= half_w
        /\ local_pos[2] >= -half_h
        /\ local_pos[2] <= half_h

\* length() <= ROAD_WIDTH and atan2 in [45, 135] degrees.  The corner is
\* spawned rotated 45 degrees further than local_pos accounts for, so the
\* window is [90, 180] degrees here; atan2(0, 0) = 0 is outside it.
is_point_in_corner_right(local_pos) ==
    /\ local_pos[1] * local_pos[1] + local_pos[2] * local_pos[2] <= ROAD_WIDTH * ROAD_WIDTH
    /\ local_pos[1] <= 0
    /\ local_pos[2] >= 0
    /\ local_pos # <<0, 0>>

\* As above with the corner spawned rotated 45 degrees less: [0, 90] here.
is_point_in_corner_left(local_pos) ==
    /\ local_pos[1] * local_pos[1] + local_pos[2] * local_pos[2] <= ROAD_WIDTH * ROAD_WIDTH
    /\ local_pos[1] >= 0
    /\ local_pos[2] >= 0
    /\ local_pos # <<0, 0>>

is_point_in_segment(local_pos, segment_type) ==
    CASE segment_type = "Straight"    -> is_point_in_straight(local_pos)
      [] segment_type = "CornerRight" -> is_point_in_corner_right(local_pos)
      [] segment_type = "CornerLeft"  -> is_point_in_corner_left(local_pos)

\* The RoadSegment entity of a straight and the endpoint after it.
spawn_straight_road(current_endpoint, current_direction, segment_type) ==
    LET offset == get_position_offset(current_direction)
        center == VAdd(current_endpoint, <<offset[1] \div 2, offset[2] \div 2>>)
    IN  [ entity |-> [ segment_type |-> segment_type,
                       direction |-> current_direction,
                       translation |-> center,
                       quarters |-> get_rotation(current_direction) ],
          endpoint |-> VAdd(current_endpoint, offset),
          direction |-> current_direction ]

\* The RoadSegment entity of a corner, placed at its pivot.
spawn_corner_road(current_endpoint, current_direction, segment_type) ==
    LET exit_direction == get_exit_direction(current_direction, segment_type)
        exit_vec == get_direction_vector(exit_direction)
        entry_vec == get_direction_vector(current_direction)
        pivot == VAdd(current_endpoint, VScale(exit_vec, ROAD_WIDTH \div 2))
    IN  [ entity |-> [ segment_type |-> segment_type,
                       direction |-> current_direction,
                       translation |-> pivot,
                       quarters |-> get_rotation(current_direction) ],
          endpoint |-> VAdd(pivot, VScale(entry_vec, ROAD_WIDTH \div 2)),
          direction |-> exit_direction ]

RECURSIVE SpawnFrom(_, _, _, _)

SpawnFrom(layout, k, current_endpoint, current_direction) ==
    IF k > Len(layout) THEN <<>>
    ELSE LET spawned == IF layout[k] = "Straight"
                        THEN spawn_straight_road(current_endpoint, current_direction, layout[k])
                        ELSE spawn_corner_road(current_endpoint, current_direction, layout[k])
         IN  <<spawned.entity>> \o SpawnFrom(layout, k + 1, spawned.endpoint, spawned.direction)

\* The RoadSegment entities of a track, in layout order.
spawn_track(track) ==
    SpawnFrom(track.layout, 1,
              <<track.starting_point[1],
                track.starting_point[2] - ROAD_SEGMENT_LENGTH \div 2>>,
              "Up")

\* The four corners: front-left, front-right, back-right, back-left.
get_car_corners(transform) ==
    LET half_w == CAR_WIDTH \div 2
        half_h == CAR_HEIGHT \div 2
        local_corners == << <<-half_w, half_h>>, <<half_w, half_h>>,
                            <<half_w, -half_h>>, <<-half_w, -half_h>> >>
    IN  [ k \in 1..4 |->
            VAdd(<<transform.x, transform.y>>,
                 RotateQuarters(local_corners[k], transform.quarters)) ]

car_touches_segment_mut_front_left(car_corners, road) ==
    is_point_in_segment(world_to_local_2d(road, car_corners[1]), road.segment_type)

\* The inner loop of update_segment_visited_status: any corner is inside.
car_touches_segment(car_corners, road) ==
    \E k \in 1..Len(car_corners) :
        is_point_in_segment(world_to_local_2d(road, car_corners[k]), road.segment_type)


(***************************************************************************)
(* RaceState and the line-crossing helpers (src/hud/components.rs,         *)
(* src/hud/helpers.rs, src/hud/systems.rs)                                 *)
(***************************************************************************)
LINE_X_TOLERANCE == ROAD_WIDTH \div 2

is_within_line_x_bounds(car_x, line_x) == Abs(car_x - line_x) < LINE_X_TOLERANCE

has_crossed_line_mut_either_way(car_y, last_y, line_y, direction) ==
    \/ last_y <= line_y /\ car_y > line_y
    \/ last_y >= line_y /\ car_y < line_y

has_crossed_line(car_y, last_y, line_y, direction) ==
    CASE direction = "Up"   -> last_y <= line_y /\ car_y > line_y
      [] direction = "Down" -> last_y >= line_y /\ car_y < line_y
      [] direction \in {"Left", "Right"} -> FALSE

has_crossed_line_at(car_pos, car_last_y, line_pos, direction) ==
    /\ is_within_line_x_bounds(car_pos[1], line_pos[1])
    /\ has_crossed_line(car_pos[2], car_last_y, line_pos[2], direction)

(***************************************************************************)
(* Time.  A Duration is a number of nanoseconds, here below one second; an *)
(* f32 is a record [m, e] that stands for m / 2^e with m below 2^24, or    *)
(* F32Zero.  Duration::mul_f32 goes through f32 seconds and back, rounding *)
(* to the nearest (ties to even) each time.                                *)
(***************************************************************************)
RECURSIVE Pow2(_)
Pow2(k) == IF k = 0 THEN 1 ELSE 2 * Pow2(k - 1)

F32_MANTISSA_DIGITS == 24

\* NANOS_PER_SEC = 2^9 * 5^9
NanosPerSecOddPart == 1953125

NanosPerSecTwos == 9

F32Zero == [m |-> 0, e |-> 0]

\* <<Q, R>> with a * p = Q * q + R and R < q, without forming a * p.
RECURSIVE MulDiv(_, _, _)
MulDiv(a, p, q) ==
    IF p = 0 THEN <<0, 0>>
    ELSE LET h == MulDiv(a, p \div 2, q)
             add == IF p % 2 = 1 THEN a ELSE 0
             r == 2 * h[2] + (add % q)
         IN  <<2 * h[1] + (add \div q) + (r \div q), r % q>>

\* Round to nearest, ties to even: the quotient Q with remainder R of a
\* division by q.
RoundHalfEven(Q, R, q) ==
    IF 2 * R > q \/ (2 * R = q /\ Q % 2 = 1) THEN Q + 1 ELSE Q

\* Doubles Q + R / q until Q has 24 significant bits.
RECURSIVE Normalize(_, _, _, _)
Normalize(Q, R, q, e) ==
    IF Q >= Pow2(F32_MANTISSA_DIGITS - 1) THEN <<Q, R, e>>
    ELSE Normalize(2 * Q + (2 * R) \div q, (2 * R) % q, q, e + 1)

\* Halves m / 2^e until m has at most 24 bits, rounding once at the end.
ShiftOf(m) == CHOOSE s \in 0..8 : m \div Pow2(s) < Pow2(F32_MANTISSA_DIGITS)
                                  /\ (s = 0 \/ m \div Pow2(s - 1) >= Pow2(F32_MANTISSA_DIGITS))

F32Round(m, e) ==
    LET s == ShiftOf(m)
    IN  [m |-> RoundHalfEven(m \div Pow2(s), m % Pow2(s), Pow2(s)), e |-> e - s]

\* Duration::as_secs_f32, for a duration below one second:
\* (nanos as f32) / (NANOS_PER_SEC as f32)
as_secs_f32(nanos) ==
    IF nanos = 0 THEN F32Zero
    ELSE LET n == F32Round(nanos, 0)
             d == Normalize(n.m \div NanosPerSecOddPart, n.m % NanosPerSecOddPart,
                            NanosPerSecOddPart, 0)
         IN  [m |-> RoundHalfEven(d[1], d[2], NanosPerSecOddPart),
              e |-> d[3] + n.e + NanosPerSecTwos]

\* rhs * x for a whole number rhs that an f32 holds exactly
F32Mul(rhs, x) == F32Round(rhs * x.m, x.e)

\* Duration::from_secs_f32, for a value below one second
from_secs_f32(x) ==
    IF x.m = 0 THEN 0
    ELSE LET twos == x.e - NanosPerSecTwos
             whole == (x.m \div Pow2(twos)) * NanosPerSecOddPart
             part == MulDiv(x.m % Pow2(twos), NanosPerSecOddPart, Pow2(twos))
         IN  whole + RoundHalfEven(part[1], part[2], Pow2(twos))

\* Duration::mul_f32
mul_f32(duration, rhs) == from_secs_f32(F32Mul(rhs, as_secs_f32(duration)))

\* Time multiplier applied when the car is off the road
OFF_ROAD_TIME_MULTIPLIER == 10

\* Stopwatch::new, tick, reset, pause, unpause and elapsed_secs, on the
\* stopwatch fields of RaceState.
Stopwatch_new == [elapsed |-> 0, paused |-> FALSE]

Stopwatch_tick(rs, delta) ==
    IF rs.paused THEN rs ELSE [rs EXCEPT !.elapsed = rs.elapsed + delta]

Stopwatch_reset(rs) == [rs EXCEPT !.elapsed = 0]

Stopwatch_pause(rs) == [rs EXCEPT !.paused = TRUE]

Stopwatch_unpause(rs) == [rs EXCEPT !.paused = FALSE]

elapsed_secs(rs) == as_secs_f32(rs.elapsed)

init_race_state(car_start_y) ==
    [ status |-> "WaitingToStart", car_last_y |-> car_start_y,
      elapsed |-> Stopwatch_new.elapsed, paused |-> Stopwatch_new.paused,
      final_time |-> <<>>, is_on_road |-> TRUE ]

start_race_mut_finished(rs) == [rs EXCEPT !.status = "Finished"]

start_race(rs) ==
    Stopwatch_unpause(Stopwatch_reset([rs EXCEPT !.status = "Racing"]))

finish_race_mut_status_only(rs) == [rs EXCEPT !.status = "Finished"]

finish_race(rs) ==
    LET paused == Stopwatch_pause([rs EXCEPT !.status = "Finished"])
    IN  [paused EXCEPT !.final_time = <<elapsed_secs(paused)>>]

set_previous_car_y_mut_kept(rs, y) == rs

set_previous_car_y(rs, y) == [rs EXCEPT !.car_last_y = y]

all_visited_mut_ignored(unvisited) == TRUE

\* unvisited_query.is_empty()
all_visited(unvisited) == unvisited = {}

(***************************************************************************)
(* The level that is played: a closed six-segment track around the origin. *)
(***************************************************************************)
RaceTrack ==
    [ layout |-> <<"Straight", "CornerRight", "CornerRight",
                   "Straight", "CornerRight", "CornerRight">>,
      starting_point |-> <<0, 0>> ]

RoadSegments == spawn_track(RaceTrack)

SegmentIds == 1..Len(RoadSegments)

\* spawn_start_line: CAR_HEIGHT ahead of the starting point.
StartLine ==
    [ pos |-> <<RaceTrack.starting_point[1], RaceTrack.starting_point[2] + CAR_HEIGHT>>,
      direction |-> "Up" ]

\* setup_game: the finish line is CAR_HEIGHT behind the starting point.
FinishLine ==
    [ pos |-> <<RaceTrack.starting_point[1], RaceTrack.starting_point[2] - CAR_HEIGHT>>,
      direction |-> "Up" ]

spawn_car(starting_point) ==
    [x |-> starting_point[1], y |-> starting_point[2], quarters |-> 0]

\* The farthest the car gets in one frame, along each axis.
MaxStep == 50

CarMoves(transform) ==
    { [transform EXCEPT !.x = q[1], !.y = q[2]] : q \in
        { r \in CarPositions : /\ Abs(r[1] - transform.x) <= MaxStep
                               /\ Abs(r[2] - transform.y) <= MaxStep } }

\* check_car_on_road: every corner of the car is on some road segment.
check_car_on_road_mut_any_corner(car_transform) ==
    \E k \in 1..4 : \E id \in SegmentIds :
        is_point_in_segment(
            world_to_local_2d(RoadSegments[id], get_car_corners(car_transform)[k]),
            RoadSegments[id].segment_type)

RECURSIVE corner_on_road(_, _)

\* The inner loop over road_query from segment id on: set and break at the
\* first segment the corner is in.
corner_on_road(corner, id) ==
    IF id > Len(RoadSegments) THEN FALSE
    ELSE IF is_point_in_segment(world_to_local_2d(RoadSegments[id], corner),
                                RoadSegments[id].segment_type)
    THEN TRUE
    ELSE corner_on_road(corner, id + 1)

RECURSIVE CornersFrom(_, _)

\* The outer loop from corner k on: return false at the first corner that
\* is on no segment, true after the last.
CornersFrom(car_corners, k) ==
    IF k > Len(car_corners) THEN TRUE
    ELSE IF ~corner_on_road(car_corners[k], 1) THEN FALSE
    ELSE CornersFrom(car_corners, k + 1)

check_car_on_road(car_transform) ==
    CornersFrom(get_car_corners(car_transform), 1)

\* time.delta(): the frame times drawn, in nanoseconds (60 frames a second).
Deltas == { 16666667 }

\* The race is followed until the stopwatch shows this many nanoseconds.
MaxElapsed == 180000000

\* time.delta().mul_f32(multiplier) for the frame times and the two
\* multipliers, computed once.
ScaledDelta ==
    [ delta \in Deltas |->
        [ multiplier \in {1, OFF_ROAD_TIME_MULTIPLIER} |-> mul_f32(delta, multiplier) ] ]

(***************************************************************************)
(* The boost (src/car/components.rs, src/car/systems.rs,                   *)
(* src/props/systems.rs) and the collision test it is picked up with       *)
(* (src/collision/helpers.rs).  Times are whole milliseconds, speeds whole *)
(* pixels per second.                                                      *)
(***************************************************************************)
CAR_MAX_SPEED == 250

CAR_FRICTION == 400

\* NOS_AVAILABILITY_DURATION: f32 = 2.0 seconds
NOS_AVAILABILITY_DURATION == 2000

\* CAR_MAX_SPEED * NOS_BOOST_MULTIPLIER, the multiplier being 1.5
NOS_BOOSTED_MAX_SPEED == (CAR_MAX_SPEED * 3) \div 2

NOS_HALF_SIZE == 5

MillisPerSec == 1000

\* Timer::from_seconds(duration, TimerMode::Once)
Timer_from_seconds(duration) ==
    [ elapsed |-> 0, duration |-> duration, finished |-> FALSE ]

\* Timer::tick of a Once timer: a finished timer stays as it is; otherwise
\* the stopwatch advances, and on reaching the duration the timer is
\* finished with its elapsed time set to the duration.
Timer_tick(timer, delta) ==
    IF timer.finished THEN timer
    ELSE IF timer.elapsed + delta >= timer.duration
    THEN [timer EXCEPT !.elapsed = timer.duration, !.finished = TRUE]
    ELSE [timer EXCEPT !.elapsed = timer.elapsed + delta]

NosBoostAvailable_new(duration) ==
    [ timer |-> Timer_from_seconds(duration), active |-> FALSE ]

\* 1.0 - timer.fraction(), in thousandths.
remaining_fraction(boost) ==
    MillisPerSec - (boost.timer.elapsed * MillisPerSec) \div boost.timer.duration

\* Transform of the car entity.
CarTransform(c) == [ translation |-> <<c.x, c.y>>, quarters |-> c.quarters ]

\* Transform::from_xyz of a powerup; its rotation about its centre is left
\* at zero.
PowerupTransform(position) == [ translation |-> position, quarters |-> 0 ]

\* The four corners: front-left, front-right, back-right, back-left.
get_rect_corners(transform, half_width, half_height) ==
    LET local_corners == << <<-half_width, half_height>>, <<half_width, half_height>>,
                            <<half_width, -half_height>>, <<-half_width, -half_height>> >>
    IN  [ k \in 1..4 |->
            VAdd(transform.translation,
                 RotateQuarters(local_corners[k], transform.quarters)) ]

is_point_in_rect_mut_strict(local_pos, half_width, half_height) ==
    Abs(local_pos[1]) < half_width /\ Abs(local_pos[2]) < half_height

is_point_in_rect(local_pos, half_width, half_height) ==
    Abs(local_pos[1]) <= half_width /\ Abs(local_pos[2]) <= half_height

RECURSIVE AnyCornerInside(_, _, _, _, _)

\* for corner in &corners { if is_point_in_rect(..) { return true; } },
\* from corner k on.
AnyCornerInside(corners, k, transform, half_width, half_height) ==
    IF k > Len(corners) THEN FALSE
    ELSE IF is_point_in_rect(world_to_local_2d(transform, corners[k]),
                             half_width, half_height)
    THEN TRUE
    ELSE AnyCornerInside(corners, k + 1, transform, half_width, half_height)

check_obb_collision(transform_a, half_width_a, half_height_a, transform_b, half_width_b, half_height_b) ==
    LET corners_a == get_rect_corners(transform_a, half_width_a, half_height_a)
        corners_b == get_rect_corners(transform_b, half_width_b, half_height_b)
    IN  IF AnyCornerInside(corners_a, 1, transform_b, half_width_b, half_height_b)
        THEN TRUE
        ELSE IF AnyCornerInside(corners_b, 1, transform_a, half_width_a, half_height_a)
        THEN TRUE
        ELSE FALSE

\* velocity += forward_direction * acceleration_input * delta
apply_acceleration(v, acceleration_input, delta) ==
    v + (acceleration_input * delta) \div MillisPerSec

\* The velocity lies along the heading: nothing to dampen.
apply_lateral_friction(v) == v

apply_rolling_friction(v, delta) ==
    LET friction_magnitude == (CAR_FRICTION * delta) \div MillisPerSec
    IN  IF v <= 0 THEN v
        ELSE IF v < friction_magnitude THEN 0
        ELSE v - friction_magnitude

max_speed_mut_while_available(boost) ==
    IF boost # NoBoost THEN NOS_BOOSTED_MAX_SPEED ELSE CAR_MAX_SPEED

\* match boost { Some(b) if b.active => NOS_BOOSTED_MAX_SPEED, _ => CAR_MAX_SPEED }
max_speed(boost) ==
    IF boost # NoBoost /\ boost[1].active THEN NOS_BOOSTED_MAX_SPEED ELSE CAR_MAX_SPEED

\* velocity.clamp_length_max(max_speed)
clamp_speed(v, boost) == IF v > max_speed(boost) THEN max_speed(boost) ELSE v

\* The Commands of the systems in the order the sync point applies them.
ApplyOrder(queue) ==
    SelectSeq(queue, LAMBDA c : c.system = scenario.first_applied)
        \o SelectSeq(queue, LAMBDA c : c.system # scenario.first_applied)

RECURSIVE BoostAfter(_, _)

\* The car's NosBoostAvailable after the commands: remove takes it away,
\* a pickup inserts a new one with the full window.
BoostAfter(queue, boost) ==
    IF queue = <<>> THEN boost
    ELSE BoostAfter(Tail(queue),
                    IF Head(queue).command = "remove" THEN NoBoost
                    ELSE << NosBoostAvailable_new(NOS_AVAILABILITY_DURATION) >>)

\* The powerups the commands despawn.
Despawned(queue) ==
    { queue[k].powerup : k \in { n \in 1..Len(queue) : queue[n].command = "pickup" } }

(***************************************************************************)
(* The schedule.  A frame runs every system of the current state once, in  *)
(* any order the .chain() calls of the plugins allow; the state transition *)
(* runs between frames.                                                    *)
(***************************************************************************)
SystemsOf(state) ==
    CASE state = "Playing" -> scenario.playing
      [] state = "Paused" -> { "handle_resume_input", "pause_menu_action" }
      [] state = "LevelComplete" -> { "level_complete_action" }
      [] state = "StartMenu" -> { "menu_action" }
      [] state = "NewGameNameEntry" -> { "name_entry_action" }

RunsAfter_mut_unchained(system) ==
    CASE system = "move_car" -> { "handle_input", "update_nos_boost", "ApplyDeferredCar" }
      [] system = "update_nos_boost" -> { "handle_input" }
      [] system = "ApplyDeferredCar" -> { "update_nos_boost" }
      [] system = "ApplyDeferred" -> { "update_segment_visited_status" }
      [] OTHER -> {}

\* (handle_input, update_nos_boost, move_car).chain() and
\* (update_segment_visited_status, check_finish_line_crossing).chain()
RunsAfter(system) ==
    CASE system = "update_nos_boost" -> { "handle_input" }
      [] system = "ApplyDeferredCar" -> { "update_nos_boost" }
      [] system = "move_car" -> { "handle_input", "update_nos_boost", "ApplyDeferredCar" }
      [] system = "ApplyDeferred" -> { "update_segment_visited_status" }
      [] system = "check_finish_line_crossing" -> { "ApplyDeferred" }
      [] OTHER -> {}

CanRun(system) ==
    /\ ~panicked
    /\ system \in SystemsOf(gameState)
    /\ system \notin ranSystems
    /\ RunsAfter(system) \cap SystemsOf(gameState) \subseteq ranSystems


(***************************************************************************)
(* RaceSpec: the systems, one action each.                                 *)
(***************************************************************************)
RaceInit == RaceIdle /\ GenIdle /\ OuterIdle

\* Steering turns the car, here by a quarter turn or not at all.  The
\* heading is kept modulo a half turn: the car covers the same rectangle.
handle_input ==
    /\ CanRun("handle_input")
    /\ ranSystems' = ranSystems \cup {"handle_input"}
    /\ IF entities
       THEN /\ \E rotation_input \in scenario.rotation_input :
                 car' = [car EXCEPT !.quarters = (car.quarters + rotation_input) % 2]
            /\ \E acceleration_input \in scenario.acceleration_input :
                 velocity' = apply_acceleration(velocity, acceleration_input,
                                                scenario.time_delta)
       ELSE /\ car' = car
            /\ velocity' = velocity
    /\ UNCHANGED <<gameState, nextState, resumeFlag, entities, race_state,
                   visitedSegs, commands, finishCheck, panicked>>
    /\ UNCHANGED scenario
    /\ UNCHANGED pausedRace
    /\ UNCHANGED completedNow
    /\ UNCHANGED genVars
    /\ UNCHANGED outerVars
    /\ UNCHANGED <<nos_boost, powerups, deferred, space_pressed>>

\* Friction and the speed clamp act on the Velocity; the car's Transform
\* takes the frame's displacement, sampled among the level's positions.
\* clamp_position changes nothing: the positions are away from the window's
\* edges.
move_car ==
    /\ CanRun("move_car")
    /\ ranSystems' = ranSystems \cup {"move_car"}
    /\ IF entities
       THEN /\ velocity' = clamp_speed(
                    apply_rolling_friction(apply_lateral_friction(velocity),
                                           scenario.time_delta),
                    nos_boost)
            /\ car' \in { t \in CarMoves(car) : <<t.x, t.y>> \in scenario.positions }
       ELSE /\ velocity' = velocity
            /\ car' = car
    /\ UNCHANGED <<gameState, nextState, resumeFlag, entities, race_state,
                   visitedSegs, commands, finishCheck, panicked>>
    /\ UNCHANGED scenario
    /\ UNCHANGED pausedRace
    /\ UNCHANGED completedNow
    /\ UNCHANGED genVars
    /\ UNCHANGED outerVars
    /\ UNCHANGED <<nos_boost, powerups, deferred, space_pressed>>

\* Ticks the availability timer of the car's boost, sets active while Space
\* is held and the timer has not finished, and queues the removal of the
\* component once it has.
update_nos_boost ==
    /\ CanRun("update_nos_boost")
    /\ ranSystems' = ranSystems \cup {"update_nos_boost"}
    /\ IF entities /\ nos_boost # NoBoost
       THEN    LET timer == Timer_tick(nos_boost[1].timer, scenario.time_delta)
               IN  /\ nos_boost' = << [ timer |-> timer,
                                       active |-> space_pressed /\ ~timer.finished ] >>
                   /\ deferred' = IF timer.finished
                                  THEN Append(deferred, [ system |-> "update_nos_boost",
                                                          command |-> "remove",
                                                          powerup |-> <<>> ])
                                  ELSE deferred
       ELSE UNCHANGED <<nos_boost, deferred>>
    /\ UNCHANGED <<gameState, nextState, resumeFlag, entities, race_state, car,
                   visitedSegs, commands, finishCheck, panicked>>
    /\ UNCHANGED scenario
    /\ UNCHANGED pausedRace
    /\ UNCHANGED completedNow
    /\ UNCHANGED genVars
    /\ UNCHANGED outerVars
    /\ UNCHANGED <<velocity, powerups, space_pressed>>

\* The powerups the car's rectangle collides with.
CollidingPowerups ==
    { position \in powerups :
        check_obb_collision(CarTransform(car), CAR_WIDTH \div 2, CAR_HEIGHT \div 2,
                            PowerupTransform(position), NOS_HALF_SIZE, NOS_HALF_SIZE) }

RECURSIVE Pickups(_)

\* One despawn of the powerup and one insert of a new NosBoostAvailable for
\* each powerup hit, in the order of the query.
Pickups(hit) ==
    IF hit = {} THEN <<>>
    ELSE LET position == CHOOSE q \in hit : TRUE
         IN  << [ system |-> "check_powerup_collision", command |-> "pickup",
                  powerup |-> position ] >> \o Pickups(hit \ {position})

check_powerup_collision ==
    /\ CanRun("check_powerup_collision")
    /\ ranSystems' = ranSystems \cup {"check_powerup_collision"}
    /\ deferred' = IF entities THEN deferred \o Pickups(CollidingPowerups) ELSE deferred
    /\ UNCHANGED <<gameState, nextState, resumeFlag, entities, race_state, car,
                   visitedSegs, commands, finishCheck, panicked>>
    /\ UNCHANGED scenario
    /\ UNCHANGED pausedRace
    /\ UNCHANGED completedNow
    /\ UNCHANGED genVars
    /\ UNCHANGED outerVars
    /\ UNCHANGED <<nos_boost, velocity, powerups, space_pressed>>

\* The sync point the chain inserts between update_nos_boost and move_car:
\* the Commands of the systems that have run are applied.
ApplyDeferredCar ==
    /\ CanRun("ApplyDeferredCar")
    /\ ranSystems' = ranSystems \cup {"ApplyDeferredCar"}
    /\ nos_boost' = BoostAfter(ApplyOrder(deferred), nos_boost)
    /\ powerups' = powerups \ Despawned(deferred)
    /\ deferred' = <<>>
    /\ UNCHANGED <<gameState, nextState, resumeFlag, entities, race_state, car,
                   visitedSegs, commands, finishCheck, panicked>>
    /\ UNCHANGED scenario
    /\ UNCHANGED pausedRace
    /\ UNCHANGED completedNow
    /\ UNCHANGED genVars
    /\ UNCHANGED outerVars
    /\ UNCHANGED <<velocity, space_pressed>>

\* Queues a Visited marker for every unvisited segment the car touches;
\* car_query.single().unwrap() panics when there is no car.
update_segment_visited_status ==
    /\ CanRun("update_segment_visited_status")
    /\ ranSystems' = ranSystems \cup {"update_segment_visited_status"}
    /\ IF entities
       THEN /\ commands' = commands \cup
                    { id \in SegmentIds \ visitedSegs :
                        car_touches_segment(get_car_corners(car), RoadSegments[id]) }
            /\ panicked' = panicked
       ELSE /\ commands' = commands
            /\ panicked' = TRUE
    /\ UNCHANGED <<gameState, nextState, resumeFlag, entities, race_state, car,
                   visitedSegs, finishCheck>>
    /\ UNCHANGED scenario
    /\ UNCHANGED pausedRace
    /\ UNCHANGED completedNow
    /\ UNCHANGED genVars
    /\ UNCHANGED outerVars
    /\ UNCHANGED boostVars

\* The sync point the chain inserts: the queued markers are inserted.
ApplyDeferred ==
    /\ CanRun("ApplyDeferred")
    /\ ranSystems' = ranSystems \cup {"ApplyDeferred"}
    /\ visitedSegs' = visitedSegs \cup commands
    /\ commands' = {}
    /\ completedNow' = (visitedSegs # SegmentIds /\ visitedSegs \cup commands = SegmentIds)
    /\ UNCHANGED <<gameState, nextState, resumeFlag, entities, race_state, car,
                   finishCheck, panicked>>
    /\ UNCHANGED scenario
    /\ UNCHANGED pausedRace
    /\ UNCHANGED genVars
    /\ UNCHANGED outerVars
    /\ UNCHANGED boostVars

\* Skipped when there is no car (Single), returns early unless Racing.
check_finish_line_crossing ==
    /\ CanRun("check_finish_line_crossing")
    /\ ranSystems' = ranSystems \cup {"check_finish_line_crossing"}
    /\ IF ~entities
       THEN UNCHANGED <<race_state, finishCheck>>
       ELSE IF race_state.status # "Racing"
       THEN /\ race_state' = race_state
            /\ finishCheck' = "not_racing"
       ELSE LET crossed == has_crossed_line_at(<<car.x, car.y>>, race_state.car_last_y,
                                               FinishLine.pos, FinishLine.direction)
                finished == crossed /\ all_visited(SegmentIds \ visitedSegs)
            IN  /\ race_state' = set_previous_car_y(
                        IF finished THEN finish_race(race_state) ELSE race_state, car.y)
                /\ finishCheck' = IF finished THEN "finished"
                                  ELSE IF crossed THEN "crossed_unvisited"
                                  ELSE "no_crossing"
    /\ UNCHANGED <<gameState, nextState, resumeFlag, entities, car, visitedSegs,
                   commands, panicked>>
    /\ UNCHANGED scenario
    /\ UNCHANGED pausedRace
    /\ UNCHANGED completedNow
    /\ UNCHANGED genVars
    /\ UNCHANGED outerVars
    /\ UNCHANGED boostVars

\* Skipped when there is no car (Single), returns early unless
\* WaitingToStart.
check_start_line_crossing ==
    /\ CanRun("check_start_line_crossing")
    /\ ranSystems' = ranSystems \cup {"check_start_line_crossing"}
    /\ IF ~entities \/ race_state.status # "WaitingToStart"
       THEN race_state' = race_state
       ELSE LET crossed == has_crossed_line_at(<<car.x, car.y>>, race_state.car_last_y,
                                               StartLine.pos, StartLine.direction)
            IN  race_state' = set_previous_car_y(
                    IF crossed THEN start_race(race_state) ELSE race_state, car.y)
    /\ UNCHANGED <<gameState, nextState, resumeFlag, entities, car, visitedSegs,
                   commands, finishCheck, panicked>>
    /\ UNCHANGED scenario
    /\ UNCHANGED pausedRace
    /\ UNCHANGED completedNow
    /\ UNCHANGED genVars
    /\ UNCHANGED outerVars
    /\ UNCHANGED boostVars

\* check_car_on_road.pipe(handle_off_road_logic): stores the on-road result;
\* car_query.single().unwrap() panics when there is no car.
handle_off_road_logic ==
    /\ CanRun("handle_off_road_logic")
    /\ ranSystems' = ranSystems \cup {"handle_off_road_logic"}
    /\ IF entities
       THEN /\ race_state' = [race_state EXCEPT !.is_on_road = check_car_on_road(car)]
            /\ panicked' = panicked
       ELSE /\ race_state' = race_state
            /\ panicked' = TRUE
    /\ UNCHANGED <<gameState, nextState, resumeFlag, entities, car, visitedSegs,
                   commands, finishCheck>>
    /\ UNCHANGED scenario
    /\ UNCHANGED pausedRace
    /\ UNCHANGED completedNow
    /\ UNCHANGED genVars
    /\ UNCHANGED outerVars
    /\ UNCHANGED boostVars

tick_race_timer_multiplier_mut_always_one(rs) == 1

tick_race_timer_multiplier(rs) ==
    IF rs.is_on_road THEN 1 ELSE OFF_ROAD_TIME_MULTIPLIER

\* Ticks the stopwatch while Racing, ten times as fast off the road.
tick_race_timer ==
    /\ CanRun("tick_race_timer")
    /\ ranSystems' = ranSystems \cup {"tick_race_timer"}
    /\ \E delta \in Deltas :
          IF race_state.status = "Racing"
          THEN /\ race_state' = Stopwatch_tick(race_state,
                        ScaledDelta[delta][tick_race_timer_multiplier(race_state)])
               /\ race_state'.elapsed <= MaxElapsed
          ELSE race_state' = race_state
    /\ UNCHANGED <<gameState, nextState, resumeFlag, entities, car, visitedSegs,
                   commands, finishCheck, panicked>>
    /\ UNCHANGED scenario
    /\ UNCHANGED pausedRace
    /\ UNCHANGED completedNow
    /\ UNCHANGED genVars
    /\ UNCHANGED outerVars
    /\ UNCHANGED boostVars

check_race_finished ==
    /\ CanRun("check_race_finished")
    /\ ranSystems' = ranSystems \cup {"check_race_finished"}
    /\ nextState' = IF race_state.status = "Finished" THEN "LevelComplete" ELSE nextState
    /\ UNCHANGED <<gameState, resumeFlag, entities, race_state, car, visitedSegs,
                   commands, finishCheck, panicked>>
    /\ UNCHANGED scenario
    /\ UNCHANGED pausedRace
    /\ UNCHANGED completedNow
    /\ UNCHANGED genVars
    /\ UNCHANGED outerVars
    /\ UNCHANGED boostVars

handle_pause_input ==
    /\ CanRun("handle_pause_input")
    /\ ranSystems' = ranSystems \cup {"handle_pause_input"}
    /\ \E escape_just_pressed \in scenario.escape :
          nextState' = IF escape_just_pressed THEN "Paused" ELSE nextState
    /\ UNCHANGED <<gameState, resumeFlag, entities, race_state, car, visitedSegs,
                   commands, finishCheck, panicked>>
    /\ UNCHANGED scenario
    /\ UNCHANGED pausedRace
    /\ UNCHANGED completedNow
    /\ UNCHANGED genVars
    /\ UNCHANGED outerVars
    /\ UNCHANGED boostVars

handle_resume_input ==
    /\ CanRun("handle_resume_input")
    /\ ranSystems' = ranSystems \cup {"handle_resume_input"}
    /\ \E escape_just_pressed \in BOOLEAN :
          /\ resumeFlag' = IF escape_just_pressed THEN TRUE ELSE resumeFlag
          /\ nextState' = IF escape_just_pressed THEN "Playing" ELSE nextState
    /\ UNCHANGED <<gameState, entities, race_state, car, visitedSegs, commands,
                   finishCheck, panicked>>
    /\ UNCHANGED scenario
    /\ UNCHANGED pausedRace
    /\ UNCHANGED completedNow
    /\ UNCHANGED genVars
    /\ UNCHANGED outerVars
    /\ UNCHANGED boostVars

\* Resume, or MainMenu, which despawns every GameEntity.
pause_menu_action ==
    /\ CanRun("pause_menu_action")
    /\ ranSystems' = ranSystems \cup {"pause_menu_action"}
    /\ \E pressed \in {"None", "Resume", "MainMenu"} :
          /\ resumeFlag' = IF pressed = "Resume" THEN TRUE ELSE resumeFlag
          /\ nextState' = CASE pressed = "Resume" -> "Playing"
                            [] pressed = "MainMenu" -> "StartMenu"
                            [] OTHER -> nextState
          /\ entities' = IF pressed = "MainMenu" THEN FALSE ELSE entities
          /\ car' = IF pressed = "MainMenu" THEN NoCar ELSE car
          /\ visitedSegs' = IF pressed = "MainMenu" THEN {} ELSE visitedSegs
          /\ nos_boost' = IF pressed = "MainMenu" THEN NoBoost ELSE nos_boost
          /\ velocity' = IF pressed = "MainMenu" THEN 0 ELSE velocity
          /\ powerups' = IF pressed = "MainMenu" THEN {} ELSE powerups
    /\ UNCHANGED <<gameState, race_state, commands, finishCheck, panicked>>
    /\ UNCHANGED scenario
    /\ UNCHANGED pausedRace
    /\ UNCHANGED completedNow
    /\ UNCHANGED genVars
    /\ UNCHANGED outerVars
    /\ UNCHANGED <<deferred, space_pressed>>

\* RestartLevel and NextLevel ask for Playing, MainMenu for StartMenu.
level_complete_action ==
    /\ CanRun("level_complete_action")
    /\ ranSystems' = ranSystems \cup {"level_complete_action"}
    /\ \E pressed \in {"None", "Playing", "StartMenu"} :
          nextState' = IF pressed = "None" THEN nextState ELSE pressed
    /\ UNCHANGED <<gameState, resumeFlag, entities, race_state, car, visitedSegs,
                   commands, finishCheck, panicked>>
    /\ UNCHANGED scenario
    /\ UNCHANGED pausedRace
    /\ UNCHANGED completedNow
    /\ UNCHANGED genVars
    /\ UNCHANGED outerVars
    /\ UNCHANGED boostVars

menu_action ==
    /\ CanRun("menu_action")
    /\ ranSystems' = ranSystems \cup {"menu_action"}
    /\ \E pressed \in BOOLEAN :
          nextState' = IF pressed THEN "NewGameNameEntry" ELSE nextState
    /\ UNCHANGED <<gameState, resumeFlag, entities, race_state, car, visitedSegs,
                   commands, finishCheck, panicked>>
    /\ UNCHANGED scenario
    /\ UNCHANGED pausedRace
    /\ UNCHANGED completedNow
    /\ UNCHANGED genVars
    /\ UNCHANGED outerVars
    /\ UNCHANGED boostVars

\* Start asks for Playing, Back for StartMenu.
name_entry_action ==
    /\ CanRun("name_entry_action")
    /\ ranSystems' = ranSystems \cup {"name_entry_action"}
    /\ \E pressed \in {"None", "Playing", "StartMenu"} :
          nextState' = IF pressed = "None" THEN nextState ELSE pressed
    /\ UNCHANGED <<gameState, resumeFlag, entities, race_state, car, visitedSegs,
                   commands, finishCheck, panicked>>
    /\ UNCHANGED scenario
    /\ UNCHANGED pausedRace
    /\ UNCHANGED completedNow
    /\ UNCHANGED genVars
    /\ UNCHANGED outerVars
    /\ UNCHANGED boostVars

\* The race, the car and the visited segments.
RaceNow == <<race_state, car, velocity, visitedSegs, entities>>

\* setup_game.run_if(not(resuming_from_pause))
SetupRuns == nextState = "Playing" /\ gameState # "Playing" /\ ~resumeFlag

\* OnExit(LevelComplete): despawn_all::<GameEntity>
DespawnRuns == nextState \notin {"None", "LevelComplete"} /\ gameState = "LevelComplete"

\* The end of a frame and the StateTransition schedule before the next:
\* OnExit of the old state, then OnEnter of the new one.
StateTransition ==
    /\ ~panicked
    /\ ranSystems = SystemsOf(gameState)
    /\ ranSystems' = {}
    /\ finishCheck' = "none"
    /\ completedNow' = FALSE
    /\ visitedSegs' = IF SetupRuns \/ DespawnRuns THEN {} ELSE visitedSegs \cup commands
    /\ commands' = {}
    /\ gameState' = IF nextState = "None" THEN gameState ELSE nextState
    /\ nextState' = "None"
    /\ entities' = IF SetupRuns THEN TRUE ELSE IF DespawnRuns THEN FALSE ELSE entities
    /\ car' = IF SetupRuns THEN spawn_car(RaceTrack.starting_point)
              ELSE IF DespawnRuns THEN NoCar ELSE car
    /\ race_state' = IF SetupRuns THEN init_race_state(RaceTrack.starting_point[2])
                     ELSE race_state
    /\ resumeFlag' = IF nextState = "Playing" /\ gameState # "Playing"
                     THEN FALSE ELSE resumeFlag
    /\ nos_boost' = IF SetupRuns \/ DespawnRuns THEN NoBoost
                    ELSE BoostAfter(ApplyOrder(deferred), nos_boost)
    /\ velocity' = IF SetupRuns \/ DespawnRuns THEN 0 ELSE velocity
    /\ powerups' = IF SetupRuns THEN scenario.powerups
                   ELSE IF DespawnRuns THEN {}
                   ELSE powerups \ Despawned(deferred)
    /\ deferred' = <<>>
    /\ space_pressed' \in scenario.space
    /\ pausedRace' = IF nextState = "Paused" /\ gameState = "Playing"
                     THEN RaceNow'
                     ELSE IF nextState = "None" THEN pausedRace ELSE NotPaused
    /\ UNCHANGED panicked
    /\ UNCHANGED scenario
    /\ UNCHANGED genVars
    /\ UNCHANGED outerVars

RaceNext ==
    \/ handle_input
    \/ move_car
    \/ update_segment_visited_status
    \/ ApplyDeferred
    \/ check_finish_line_crossing
    \/ check_start_line_crossing
    \/ check_race_finished
    \/ handle_pause_input
    \/ handle_resume_input
    \/ pause_menu_action
    \/ level_complete_action
    \/ menu_action
    \/ name_entry_action
    \/ StateTransition

RaceSpec == RaceInit /\ [][RaceNext]_vars

(***************************************************************************)
(* TickSpec: the frames of a level with every system of the timer.         *)
(***************************************************************************)
TickInit == AppStart /\ scenario = TickScenario /\ GenIdle /\ OuterIdle

TickNext ==
    \/ move_car
    \/ handle_off_road_logic
    \/ update_segment_visited_status
    \/ ApplyDeferred
    \/ check_finish_line_crossing
    \/ check_start_line_crossing
    \/ tick_race_timer
    \/ check_race_finished
    \/ level_complete_action
    \/ menu_action
    \/ name_entry_action
    \/ StateTransition

TickSpec == TickInit /\ [][TickNext]_vars

(***************************************************************************)
(* BoostSpec: the frames of a level with the systems of the car and of the *)
(* powerups.                                                               *)
(***************************************************************************)
BoostInit == AppStart /\ scenario \in BoostScenarios /\ GenIdle /\ OuterIdle

BoostNext ==
    \/ handle_input
    \/ update_nos_boost
    \/ ApplyDeferredCar
    \/ move_car
    \/ check_powerup_collision
    \/ menu_action
    \/ name_entry_action
    \/ StateTransition

BoostSpec == BoostInit /\ [][BoostNext]_vars


(***************************************************************************)
(* Claims about the race (RaceSpec)                                        *)
(***************************************************************************)
\* The step is a run of the system.
Ran(system) == system \notin ranSystems /\ system \in ranSystems'

\* The step is the setup of a new level session.
NewSession == SetupRuns /\ gameState' = "Playing"

\* The step keeps the spawned track: no despawn, no new setup.
SameTrack ==
    /\ entities
    /\ entities'
    /\ ~(gameState = "LevelComplete" /\ gameState' # "LevelComplete")

\* The segments whose footprint holds a corner of the car.
TouchedSegments(transform) ==
    { id \in SegmentIds :
        \E k \in 1..4 :
            is_point_in_segment(
                world_to_local_2d(RoadSegments[id], get_car_corners(transform)[k]),
                RoadSegments[id].segment_type) }

\* C1: until the next setup replaces RaceState, status changes only from
\* WaitingToStart to Racing, in check_start_line_crossing, and from Racing
\* to Finished, in check_finish_line_crossing.
C1_StatusSteps ==
    [][ race_state'.status # race_state.status =>
          \/ NewSession /\ race_state'.status = "WaitingToStart"
          \/ /\ race_state.status = "WaitingToStart"
             /\ race_state'.status = "Racing"
             /\ Ran("check_start_line_crossing")
          \/ /\ race_state.status = "Racing"
             /\ race_state'.status = "Finished"
             /\ Ran("check_finish_line_crossing") ]_vars

\* A race that was started and finished.
C1_Witness == race_state.status = "Finished" /\ gameState = "Playing"

\* C2: whenever status is Finished no segment is unvisited, and a run of
\* check_finish_line_crossing that finds an unvisited segment does not set
\* Finished: a Racing status stays Racing.
C2_FinishGated ==
    /\ [](race_state.status = "Finished" /\ entities => SegmentIds \ visitedSegs = {})
    /\ [][ ( /\ Ran("check_finish_line_crossing")
             /\ entities
             /\ SegmentIds \ visitedSegs # {} )
           => /\ race_state'.status # "Finished"
              /\ race_state.status = "Racing" => race_state'.status = "Racing" ]_vars

\* The finish line was crossed while Racing with a segment unvisited.
C2_Witness == finishCheck = "crossed_unvisited" /\ race_state.status = "Racing"

\* C4: a run of update_segment_visited_status makes the marked segments
\* (markers inserted and markers queued, which the sync point then inserts)
\* the ones marked before plus the ones a corner of the car is in; while
\* the track lives no marker is removed, and none is added for a segment
\* the car does not touch.
C4_VisitedUnion ==
    [][ /\ (Ran("update_segment_visited_status") /\ entities) =>
              visitedSegs' \cup commands' = visitedSegs \cup TouchedSegments(car)
        /\ Ran("ApplyDeferred") => visitedSegs' = visitedSegs \cup commands
        /\ SameTrack =>
              /\ visitedSegs \subseteq visitedSegs'
              /\ visitedSegs' \cup commands'
                    \subseteq visitedSegs \cup commands \cup TouchedSegments(car) ]_vars

\* The update ran with the car on two segments, both already marked, and
\* with other segments still unmarked.
C4_Witness ==
    /\ gameState = "Playing"
    /\ "ApplyDeferred" \in ranSystems
    /\ Cardinality(TouchedSegments(car)) = 2
    /\ TouchedSegments(car) \subseteq visitedSegs
    /\ Cardinality(visitedSegs) >= 3
    /\ visitedSegs # SegmentIds

\* C11: when check_finish_line_crossing runs, this frame's
\* update_segment_visited_status and the sync point after it have run and no
\* marker is left in the queue; so a check that runs while Racing, in a
\* frame whose sync point inserted the last missing marker, and that sees
\* the car cross the finish line upward within the x tolerance, sets
\* Finished in that frame.
C11_MarkersAppliedFirst ==
    [][ Ran("check_finish_line_crossing") =>
          /\ {"update_segment_visited_status", "ApplyDeferred"} \subseteq ranSystems
          /\ commands = {}
          /\ ( /\ entities
               /\ race_state.status = "Racing"
               /\ completedNow
               /\ has_crossed_line_at(<<car.x, car.y>>, race_state.car_last_y,
                                      FinishLine.pos, FinishLine.direction) )
             => race_state'.status = "Finished" ]_vars

\* The race was finished in the frame that marked the last segment.
C11_Witness ==
    /\ completedNow
    /\ finishCheck = "finished"
    /\ race_state.status = "Finished"

\* The per-tick order of the Playing systems that C12 states.
PlayingOrder ==
    << "handle_input", "update_nos_boost", "move_car", "handle_off_road_logic",
       "update_segment_visited_status", "check_finish_line_crossing",
       "check_start_line_crossing", "tick_race_timer" >>

\* C12: in every frame of Playing a system of PlayingOrder runs only after
\* the systems before it in that order have run in the frame; so the timer
\* ticks with the on-road result of the car's position in this frame.
C12_FixedOrder ==
    [][ /\ \A i \in 1..Len(PlayingOrder) :
              Ran(PlayingOrder[i]) =>
                  \A j \in 1..(i - 1) :
                      PlayingOrder[j] \in SystemsOf(gameState) =>
                          PlayingOrder[j] \in ranSystems
        /\ (Ran("tick_race_timer") /\ entities) =>
              tick_race_timer_multiplier(race_state) =
                  IF check_car_on_road(car) THEN 1 ELSE OFF_ROAD_TIME_MULTIPLIER ]_vars

\* The two crossing checks.
CrossingChecks == { "check_start_line_crossing", "check_finish_line_crossing" }

\* C13 as stated: in a frame of Playing with a car, the first of the two
\* crossing checks to run leaves car_last_y alone and the second sets it to
\* the car's y, whatever the status.
C13_SetOnceAfterChecks ==
    [][ \A system \in CrossingChecks :
          (Ran(system) /\ entities) =>
              IF CrossingChecks \subseteq ranSystems'
              THEN race_state'.car_last_y = car.y
              ELSE race_state'.car_last_y = race_state.car_last_y ]_vars

\* C13, amended: check_start_line_crossing sets car_last_y to the car's y
\* exactly when it runs with a car at status WaitingToStart, and
\* check_finish_line_crossing exactly when it runs with a car at status
\* Racing; no other step of a level session changes car_last_y.  So it is
\* not set in a frame at status Finished.
C13_SetByActiveCheck ==
    [][ /\ Ran("check_start_line_crossing") =>
              race_state'.car_last_y =
                  IF entities /\ race_state.status = "WaitingToStart"
                  THEN car.y ELSE race_state.car_last_y
        /\ Ran("check_finish_line_crossing") =>
              race_state'.car_last_y =
                  IF entities /\ race_state.status = "Racing"
                  THEN car.y ELSE race_state.car_last_y
        /\ race_state'.car_last_y # race_state.car_last_y =>
              \/ NewSession
              \/ \E system \in CrossingChecks : Ran(system) ]_vars

\* Both checks have run in a frame at status Finished and car_last_y is not
\* the car's y.
C13_Witness ==
    /\ gameState = "Playing"
    /\ entities
    /\ race_state.status = "Finished"
    /\ finishCheck = "not_racing"
    /\ CrossingChecks \subseteq ranSystems
    /\ race_state.car_last_y # car.y

\* The y coordinates the line test is tried on for every direction.
LineYs == {-1, 0, 1}

\* C14: a step takes status from WaitingToStart to Racing exactly when it
\* is a run of check_start_line_crossing with the car across the start line
\* upward since the last frame (car_last_y <= line_y < car_y) and less than
\* ROAD_WIDTH / 2 from it in x; the step leaves the stopwatch at 0 and
\* unpaused.  A line with direction Left or Right is never crossed, one with
\* direction Up only upward.
C14_StartOnUpwardCrossing ==
    /\ [][ (race_state.status = "WaitingToStart" /\ race_state'.status = "Racing")
            <=> /\ Ran("check_start_line_crossing")
                /\ entities
                /\ race_state.status = "WaitingToStart"
                /\ race_state.car_last_y <= StartLine.pos[2]
                /\ StartLine.pos[2] < car.y
                /\ Abs(car.x - StartLine.pos[1]) < ROAD_WIDTH \div 2 ]_vars
    /\ [][ (race_state.status = "WaitingToStart" /\ race_state'.status = "Racing")
            => race_state'.elapsed = 0 /\ ~race_state'.paused ]_vars
    /\ [](\A car_y \in LineYs, last_y \in LineYs, line_y \in LineYs :
            /\ ~has_crossed_line(car_y, last_y, line_y, "Left")
            /\ ~has_crossed_line(car_y, last_y, line_y, "Right")
            /\ has_crossed_line(car_y, last_y, line_y, "Up")
                  <=> (last_y <= line_y /\ line_y < car_y))

\* The race was started in this frame, after the finish check had run.
C14_Witness ==
    /\ race_state.status = "Racing"
    /\ "check_start_line_crossing" \in ranSystems
    /\ finishCheck = "not_racing"
    /\ race_state.elapsed = 0
    /\ ~race_state.paused

\* C15: final_time is None while status is WaitingToStart or Racing; the
\* step from Racing to Finished keeps the elapsed time, pauses the stopwatch
\* and stores the elapsed seconds in final_time; from then on, until the
\* next setup, the stopwatch stays paused and neither the elapsed time nor
\* final_time changes.
C15_FinalTime ==
    /\ [](race_state.status \in {"WaitingToStart", "Racing"} =>
              race_state.final_time = <<>>)
    /\ [](race_state.status = "Finished" =>
              /\ race_state.paused
              /\ race_state.final_time = <<elapsed_secs(race_state)>>)
    /\ [][ (race_state.status = "Racing" /\ race_state'.status = "Finished") =>
              /\ race_state'.elapsed = race_state.elapsed
              /\ race_state'.final_time = <<as_secs_f32(race_state.elapsed)>> ]_vars
    /\ [][ (race_state.status = "Finished" /\ ~NewSession) =>
              /\ race_state'.status = "Finished"
              /\ race_state'.elapsed = race_state.elapsed
              /\ race_state'.final_time = race_state.final_time ]_vars

\* A frame after the one that finished the race: the timer and the finish
\* check have both run at status Finished, the final time is not zero.
C15_Witness ==
    /\ race_state.status = "Finished"
    /\ finishCheck = "not_racing"
    /\ "tick_race_timer" \in ranSystems
    /\ race_state.elapsed > 0
    /\ race_state.final_time = <<elapsed_secs(race_state)>>

\* The multiplier C16 states for the stored on-road result.
StatedMultiplier == IF race_state.is_on_road THEN 1 ELSE OFF_ROAD_TIME_MULTIPLIER

\* C16 as stated: a run of tick_race_timer at status Racing adds exactly
\* delta * m to the elapsed time, and a run at any other status adds
\* nothing.
C16_ExactTick ==
    [][ Ran("tick_race_timer") =>
          IF race_state.status = "Racing"
          THEN \E delta \in Deltas :
                  race_state'.elapsed = race_state.elapsed + delta * StatedMultiplier
          ELSE race_state'.elapsed = race_state.elapsed ]_vars

\* The rounding of the f32 has 24 significant bits; two roundings and the
\* one to whole nanoseconds stay within a 2^22-th of the product.
RoundingShare == Pow2(F32_MANTISSA_DIGITS - 2)

\* delta.mul_f32(m) is within that share of delta * m.
WithinRounding ==
    \A delta \in Deltas : \A m \in {1, OFF_ROAD_TIME_MULTIPLIER} :
        /\ ScaledDelta[delta][m] = mul_f32(delta, m)
        /\ Abs(ScaledDelta[delta][m] - delta * m) <= (delta * m) \div RoundingShare

\* C16, amended: a run of tick_race_timer at status Racing adds
\* delta.mul_f32(m) to the elapsed time, which is delta * m rounded through
\* f32 seconds and differs from delta * m by no more than a 2^22-th of it;
\* m is 1 if the stored is_on_road is true and OFF_ROAD_TIME_MULTIPLIER
\* otherwise.  A run at status WaitingToStart or Finished changes nothing.
C16_TickAmount ==
    /\ [][ Ran("tick_race_timer") =>
              IF race_state.status = "Racing"
              THEN \E delta \in Deltas :
                      race_state' = [race_state EXCEPT !.elapsed =
                          race_state.elapsed + ScaledDelta[delta][StatedMultiplier]]
              ELSE race_state' = race_state ]_vars
    /\ []WithinRounding

\* The first tick of a race was made off the road.
C16_Witness ==
    /\ race_state.status = "Racing"
    /\ ~race_state.is_on_road
    /\ "tick_race_timer" \in ranSystems
    /\ \E delta \in Deltas :
          race_state.elapsed = ScaledDelta[delta][OFF_ROAD_TIME_MULTIPLIER]

\* The race in progress ends: the step leaves the level for the start menu
\* or sets up a new level session.
RaceEnds == (gameState' = "StartMenu" /\ gameState # "StartMenu") \/ NewSession

\* The level-completion event: the transition into GameState::LevelComplete,
\* whose OnEnter runs spawn_level_complete_menu.
LevelCompletion == gameState # "LevelComplete" /\ gameState' = "LevelComplete"

\* C17: for a race whose status has reached Finished the level-completion
\* event happens exactly once.  Not zero times: the finished race leaves the
\* level (Playing or its pause) only into LevelComplete.  Not twice: the
\* event comes from a finished race in Playing, and LevelComplete is left
\* only by ending that race.
C17_CompletionExactlyOnce ==
    /\ [][ (/\ race_state.status = "Finished"
            /\ gameState \in {"Playing", "Paused"}
            /\ gameState' \notin {"Playing", "Paused"})
           => LevelCompletion ]_vars
    /\ [][ LevelCompletion
           => gameState = "Playing" /\ race_state.status = "Finished" ]_vars
    /\ [][ (gameState = "LevelComplete" /\ gameState' # "LevelComplete")
           => RaceEnds ]_vars


(***************************************************************************)
(* Claims about the on-road check (TickSpec)                               *)
(***************************************************************************)
\* The corner lies inside the footprint of the road segment.
InFootprint(corner, id) ==
    is_point_in_segment(world_to_local_2d(RoadSegments[id], corner),
                        RoadSegments[id].segment_type)

\* The transforms a car can have.
CarTransforms ==
    { [x |-> p[1], y |-> p[2], quarters |-> q] : p \in CarPositions, q \in 0..1 }

\* For each car and each of its four corners, the segments whose footprint
\* holds the corner.
SegmentsUnder ==
    [ t \in CarTransforms |->
        [ k \in 1..4 |-> { id \in SegmentIds : InFootprint(get_car_corners(t)[k], id) } ] ]

\* C18: check_car_on_road returns true iff each of the car's four corners
\* lies inside the footprint of at least one road segment, and false
\* whenever some corner lies in no segment: the result that
\* handle_off_road_logic stores is that of the car it looks at.
C18_AllFourCorners ==
    [][ (Ran("handle_off_road_logic") /\ entities)
        => /\ race_state'.is_on_road = (\A k \in 1..4 : SegmentsUnder[car][k] # {})
           /\ ((\E k \in 1..4 : SegmentsUnder[car][k] = {}) => ~race_state'.is_on_road)
           /\ ((\A k \in 1..4 : SegmentsUnder[car][k] = {}) => ~race_state'.is_on_road) ]_vars

\* The check has said on-road for a car that no single segment holds:
\* its corners lie in different segments.
C18_Witness ==
    /\ entities
    /\ "handle_off_road_logic" \in ranSystems
    /\ "move_car" \notin ranSystems
    /\ race_state.is_on_road
    /\ \A k \in 1..4 : SegmentsUnder[car][k] # {}
    /\ ~ \E id \in SegmentIds : \A k \in 1..4 : id \in SegmentsUnder[car][k]

(***************************************************************************)
(* Claims about the starting point (GenSpec)                               *)
(***************************************************************************)
\* The centre of the grid cell a spawned segment covers.  A straight is
\* placed at the centre of its cell; a corner is placed at its pivot, half
\* a road width from the centre of the entry edge towards the exit.
CellCentre(entity) ==
    IF entity.segment_type = "Straight" THEN entity.translation
    ELSE LET exit_vec == get_direction_vector(
                             get_exit_direction(entity.direction, entity.segment_type))
             entry_vec == get_direction_vector(entity.direction)
         IN  VAdd(VSub(entity.translation, VScale(exit_vec, ROAD_WIDTH \div 2)),
                  VScale(entry_vec, ROAD_SEGMENT_LENGTH \div 2))

\* The cell centres of the track as spawn_track lays it out.
SpawnedCells(track) ==
    LET spawned == spawn_track(track)
    IN  { CellCentre(spawned[k]) : k \in 1..Len(spawned) }

SetMin(S) == CHOOSE n \in S : \A m \in S : n <= m

SetMax(S) == CHOOSE n \in S : \A m \in S : n >= m

\* Twice the centre of the bounding box of a set of cells.
TwiceBoxCentre(cells) ==
    << SetMin({ c[1] : c \in cells }) + SetMax({ c[1] : c \in cells }),
       SetMin({ c[2] : c \in cells }) + SetMax({ c[2] : c \in cells }) >>

GeneratedTrack == [layout |-> attempt.layout, starting_point |-> attempt.starting_point]

\* C19: for every successfully generated track, the bounding box of the
\* cells spawn_track lays out from starting_point is centred on the world
\* origin.
C19_CentredOnOrigin ==
    Returned => TwiceBoxCentre(SpawnedCells(GeneratedTrack)) = <<0, 0>>

(***************************************************************************)
(* LayoutSpec: one call of validate_track_layout (src/road/helpers.rs),    *)
(* one loop iteration a step.  The record `attempt` holds its locals; pc   *)
(* is "entry", "loop", "returned" or "panicked"; panic is the message of   *)
(* the panic!, "none" while there is none.                                 *)
(***************************************************************************)
\* The longest layout that is validated.
MaxLayoutLen == 6

RECURSIVE LayoutsOfLen(_)

LayoutsOfLen(n) ==
    IF n = 0 THEN { <<>> }
    ELSE { Append(l, t) : l \in LayoutsOfLen(n - 1), t \in RoadSegmentType }

Layouts == UNION { LayoutsOfLen(n) : n \in 0..MaxLayoutLen }

ValidateEntry(layout) ==
    [ layout |-> layout,
      index |-> 1,
      current_direction |-> "Up",
      current_position |-> IVec2_ZERO,
      visited |-> {IVec2_ZERO},
      pc |-> "entry",
      panic |-> "none" ]

LayoutInit ==
    /\ \E layout \in Layouts : attempt = ValidateEntry(layout)
    /\ genConfig = IdleConfig
    /\ genGrid = <<HalfWidth, HalfHeight>>
    /\ OuterIdle
    /\ RaceIdle

\* if layout.is_empty() { panic!(..) }
is_empty_check ==
    /\ attempt.pc = "entry"
    /\ attempt' = IF attempt.layout = <<>>
                  THEN [attempt EXCEPT !.pc = "panicked", !.panic = "track is empty"]
                  ELSE [attempt EXCEPT !.pc = "loop"]
    /\ UNCHANGED <<genConfig, genGrid>>
    /\ UNCHANGED outerVars
    /\ UNCHANGED raceVars
    /\ UNCHANGED boostVars

\* The position the iteration moves to first.
MovedPosition(a) == get_next_grid_position(a.current_position, a.current_direction)

returns_at_origin_mut_column(a) == MovedPosition(a)[1] = 0

\* if current_position == IVec2::ZERO
returns_at_origin(a) == MovedPosition(a) = IVec2_ZERO

\* An iteration that finds the walk back at the origin: return, or panic
\* when the segment's exit direction is not Up.
back_at_start ==
    /\ attempt.pc = "loop"
    /\ attempt.index <= Len(attempt.layout)
    /\ returns_at_origin(attempt)
    /\ LET exit_direction == get_exit_direction(attempt.current_direction,
                                                attempt.layout[attempt.index])
       IN  attempt' = IF exit_direction # "Up"
                      THEN [attempt EXCEPT !.current_position = MovedPosition(attempt),
                                           !.pc = "panicked",
                                           !.panic = "track does not close smoothly"]
                      ELSE [attempt EXCEPT !.current_position = MovedPosition(attempt),
                                           !.pc = "returned"]
    /\ UNCHANGED <<genConfig, genGrid>>
    /\ UNCHANGED outerVars
    /\ UNCHANGED raceVars
    /\ UNCHANGED boostVars

\* An iteration away from the origin: panic on a visited position, else
\* record the position and turn.
next_segment ==
    /\ attempt.pc = "loop"
    /\ attempt.index <= Len(attempt.layout)
    /\ ~returns_at_origin(attempt)
    /\ attempt' = IF MovedPosition(attempt) \in attempt.visited
                  THEN [attempt EXCEPT !.current_position = MovedPosition(attempt),
                                       !.pc = "panicked",
                                       !.panic = "track crosses itself"]
                  ELSE [attempt EXCEPT
                          !.current_position = MovedPosition(attempt),
                          !.visited = attempt.visited \cup {MovedPosition(attempt)},
                          !.current_direction =
                              get_exit_direction(attempt.current_direction,
                                                 attempt.layout[attempt.index]),
                          !.index = attempt.index + 1]
    /\ UNCHANGED <<genConfig, genGrid>>
    /\ UNCHANGED outerVars
    /\ UNCHANGED raceVars
    /\ UNCHANGED boostVars

\* The loop ends without a return: the panic after it.
loop_exhausted ==
    /\ attempt.pc = "loop"
    /\ attempt.index > Len(attempt.layout)
    /\ attempt' = [attempt EXCEPT !.pc = "panicked",
                                  !.panic = "track does not form a closed loop"]
    /\ UNCHANGED <<genConfig, genGrid>>
    /\ UNCHANGED outerVars
    /\ UNCHANGED raceVars
    /\ UNCHANGED boostVars

LayoutNext ==
    \/ is_empty_check
    \/ back_at_start
    \/ next_segment
    \/ loop_exhausted

LayoutSpec == LayoutInit /\ [][LayoutNext]_vars

(***************************************************************************)
(* Claims about validate_track_layout (LayoutSpec)                         *)
(***************************************************************************)
\* The walk of the layout from the origin heading Up enters no cell twice,
\* is at the origin exactly at the last segment, and leaves it heading Up.
SimpleClosedWalk(layout) ==
    /\ layout # <<>>
    /\ \A i, j \in 1..Len(layout) :
          i # j => WalkCell(layout, i) # WalkCell(layout, j)
    /\ \A i \in 1..Len(layout) :
          (WalkCell(layout, i) = IVec2_ZERO) <=> (i = Len(layout))
    /\ WalkDir(layout, Len(layout)) = "Up"

\* C20: validate_track_layout accepts exactly the layouts whose walk from the
\* origin heading Up enters no cell twice, returns to the origin exactly at
\* the last segment and leaves it heading Up, and rejects (panics on) every
\* other layout.
C20_AcceptsExactlyClosedWalks ==
    /\ attempt.pc = "returned" => SimpleClosedWalk(attempt.layout)
    /\ attempt.pc = "panicked" => ~SimpleClosedWalk(attempt.layout)

\* The call of validate_track_layout has ended.
Validated == attempt.pc \in {"returned", "panicked"}

Corners == {"CornerLeft", "CornerRight"}

\* Two Straight segments followed by two corner segments.
TwoStraightsTwoCorners ==
    { <<"Straight", "Straight", c1, c2>> : c1 \in Corners, c2 \in Corners }

\* The layouts of MIN_VALID_SEGMENTS segments that are a square: four
\* corners turning the same way.
Squares ==
    { <<"CornerLeft", "CornerLeft", "CornerLeft", "CornerLeft">>,
      <<"CornerRight", "CornerRight", "CornerRight", "CornerRight">> }

PickupQueued == \E k \in 1..Len(deferred) : deferred[k].command = "pickup"

\* The step is update_nos_boost ticking the timer of a boost the car has.
BoostTicked ==
    /\ "update_nos_boost" \notin ranSystems
    /\ "update_nos_boost" \in ranSystems'
    /\ entities
    /\ nos_boost # NoBoost

\* The step applies the queued commands to the level's entities.
CommandsApplied ==
    /\ deferred # <<>>
    /\ deferred' = <<>>
    /\ entities'
    /\ gameState' = gameState

\* C22, first clause: while the car keeps one grant of NosBoostAvailable,
\* its remaining fraction never increases from a step to the next.
C22_FractionNeverIncreases ==
    [][ (nos_boost # NoBoost /\ nos_boost' # NoBoost
            /\ ~(CommandsApplied /\ PickupQueued))
        => remaining_fraction(nos_boost'[1]) <= remaining_fraction(nos_boost[1]) ]_vars

\* C22, second clause: update_nos_boost queues the removal in exactly the
\* tick at which the accumulated time reaches NOS_AVAILABILITY_DURATION,
\* whatever the activate key, and with no pickup queued the commands applied
\* next take the component away.
C22_RemovedAtExpiry ==
    [][ /\ BoostTicked
          => LET reached == nos_boost[1].timer.elapsed + scenario.time_delta
                                >= NOS_AVAILABILITY_DURATION
             IN  /\ reached <=> Len(deferred') = Len(deferred) + 1
                 /\ reached <=> nos_boost'[1].timer.finished
                 /\ ~nos_boost[1].timer.finished
        /\ (CommandsApplied /\ ~PickupQueued) => nos_boost' = NoBoost ]_vars

\* Some pickup was queued before update_nos_boost queued a removal: the
\* boost's timer had not finished when the car hit the powerup.
PickupQueuedBeforeExpiry ==
    \E k \in 1..Len(deferred) :
        /\ deferred[k].command = "pickup"
        /\ \A n \in 1..(k - 1) : deferred[n].command # "remove"

\* C22, third clause: when the commands of a pickup made while the car has
\* a boost whose timer has not finished are applied, the car has a boost
\* with the full window.
C22_PickupRestoresWindow ==
    [][ (CommandsApplied /\ PickupQueuedBeforeExpiry /\ nos_boost # NoBoost)
        => /\ nos_boost' # NoBoost
           /\ remaining_fraction(nos_boost'[1]) = MillisPerSec ]_vars

\* C22: after a pickup the remaining fraction never increases, the boost is
\* removed in the first tick reaching NOS_AVAILABILITY_DURATION whether or
\* not the key is held, and a pickup while a boost is available restores the
\* full window.
C22_BoostWindow ==
    /\ C22_FractionNeverIncreases
    /\ C22_RemovedAtExpiry
    /\ C22_PickupRestoresWindow


(***************************************************************************)
(* The speed cap.                                                          *)
(***************************************************************************)
\* The step is move_car acting on the car.
CarMoved ==
    /\ "move_car" \notin ranSystems
    /\ "move_car" \in ranSystems'
    /\ entities

\* C23: move_car clamps to NOS_BOOSTED_MAX_SPEED only in a tick where the
\* car has NosBoostAvailable with active = TRUE, which is so only when Space
\* is held in that tick and the timer has not finished; in every other tick
\* the speed after the clamp is at most CAR_MAX_SPEED.
C23_BoostedCapOnlyWhileActive ==
    [][ CarMoved
        => LET boosted == nos_boost # NoBoost /\ nos_boost[1].active
           IN  /\ boosted => space_pressed /\ ~nos_boost[1].timer.finished
               /\ boosted => velocity' <= NOS_BOOSTED_MAX_SPEED
               /\ ~boosted => velocity' <= CAR_MAX_SPEED ]_vars

\* move_car has left the car faster than CAR_MAX_SPEED, at the boosted cap.
C23_Witness ==
    /\ "move_car" \in ranSystems
    /\ entities
    /\ nos_boost # NoBoost
    /\ nos_boost[1].active
    /\ velocity = NOS_BOOSTED_MAX_SPEED


(***************************************************************************)
(* CollisionSpec: one call of check_obb_collision, one corner a step.      *)
(***************************************************************************)
\* Coordinates of the first rectangle's centre; the second is at the origin.
Coordinates == {-100, -14, -8, 0, 5, 10, 14}

Rect(translation, quarters, half_width, half_height) ==
    [ transform |-> [ translation |-> translation, quarters |-> quarters ],
      half_width |-> half_width,
      half_height |-> half_height ]

\* The car's rectangle, upright or turned a quarter.
RectsA ==
    { Rect(<<x, y>>, q, CAR_WIDTH \div 2, CAR_HEIGHT \div 2) :
        x \in Coordinates, y \in Coordinates, q \in {0, 1} }

\* A powerup's square and a thin bar, upright or turned a quarter.
RectsB ==
    { Rect(IVec2_ZERO, q, half[1], half[2]) :
        q \in {0, 1}, half \in { <<NOS_HALF_SIZE, NOS_HALF_SIZE>>, <<2, 12>> } }

ObbEntry(rect_a, rect_b) ==
    [ a |-> rect_a,
      b |-> rect_b,
      corners_a |-> get_rect_corners(rect_a.transform, rect_a.half_width,
                                     rect_a.half_height),
      corners_b |-> get_rect_corners(rect_b.transform, rect_b.half_width,
                                     rect_b.half_height),
      pc |-> "corners_a",
      index |-> 1,
      result |-> "pending" ]

CollisionInit ==
    /\ \E rect_a \in RectsA, rect_b \in RectsB : attempt = ObbEntry(rect_a, rect_b)
    /\ genConfig = IdleConfig
    /\ genGrid = <<HalfWidth, HalfHeight>>
    /\ OuterIdle
    /\ RaceIdle

\* is_point_in_rect(world_to_local_2d(transform, corner), ..) for a rectangle.
CornerInside(corner, rect) ==
    is_point_in_rect(world_to_local_2d(rect.transform, corner),
                     rect.half_width, rect.half_height)

\* One iteration of the loop over the corners of A: return true for a corner
\* inside B.
corner_of_a ==
    /\ attempt.pc = "corners_a"
    /\ attempt' = IF CornerInside(attempt.corners_a[attempt.index], attempt.b)
                  THEN [attempt EXCEPT !.pc = "returned", !.result = TRUE]
                  ELSE IF attempt.index = 4
                  THEN [attempt EXCEPT !.pc = "corners_b", !.index = 1]
                  ELSE [attempt EXCEPT !.index = attempt.index + 1]
    /\ UNCHANGED <<genConfig, genGrid>>
    /\ UNCHANGED outerVars
    /\ UNCHANGED raceVars
    /\ UNCHANGED boostVars

\* One iteration of the loop over the corners of B: return true for a corner
\* inside A, and false after the last corner.
corner_of_b ==
    /\ attempt.pc = "corners_b"
    /\ attempt' = IF CornerInside(attempt.corners_b[attempt.index], attempt.a)
                  THEN [attempt EXCEPT !.pc = "returned", !.result = TRUE]
                  ELSE IF attempt.index = 4
                  THEN [attempt EXCEPT !.pc = "returned", !.result = FALSE]
                  ELSE [attempt EXCEPT !.index = attempt.index + 1]
    /\ UNCHANGED <<genConfig, genGrid>>
    /\ UNCHANGED outerVars
    /\ UNCHANGED raceVars
    /\ UNCHANGED boostVars

CollisionNext ==
    \/ corner_of_a
    \/ corner_of_b

CollisionSpec == CollisionInit /\ [][CollisionNext]_vars

(***************************************************************************)
(* Claims about check_obb_collision (CollisionSpec)                        *)
(***************************************************************************)
\* Some corner of the first rectangle is inside or on the edge of the second.
SomeCornerIn(rect, other) ==
    \E k \in 1..4 :
        LET local == world_to_local_2d(
                         other.transform,
                         get_rect_corners(rect.transform, rect.half_width,
                                          rect.half_height)[k])
        IN  /\ -other.half_width <= local[1] /\ local[1] <= other.half_width
            /\ -other.half_height <= local[2] /\ local[2] <= other.half_height

\* The centres are further apart along an axis than the rectangles reach.
FarApart(rect, other) ==
    LET d == VSub(rect.transform.translation, other.transform.translation)
        reach == rect.half_width + rect.half_height
                    + other.half_width + other.half_height
    IN  Abs(d[1]) > reach \/ Abs(d[2]) > reach

\* check_obb_collision with the rectangles swapped.
SwappedResult ==
    check_obb_collision(attempt.b.transform, attempt.b.half_width,
                        attempt.b.half_height,
                        attempt.a.transform, attempt.a.half_width,
                        attempt.a.half_height)

\* C24: check_obb_collision(A, B) is true exactly when some corner of A is
\* inside or on the boundary of B or some corner of B is inside or on the
\* boundary of A; the result is the same with A and B swapped, and false for
\* rectangles far apart.
C24_CornerContainment ==
    attempt.pc = "returned"
    => /\ attempt.result
            <=> (SomeCornerIn(attempt.a, attempt.b) \/ SomeCornerIn(attempt.b, attempt.a))
       /\ attempt.result = SwappedResult
       /\ FarApart(attempt.a, attempt.b) => attempt.result = FALSE

\* The call has returned true for rectangles that touch only at an edge,
\* with a corner of B on the boundary of A and no corner of A in B.
C24_Witness ==
    /\ attempt.pc = "returned"
    /\ attempt.result = TRUE
    /\ attempt.a.transform.translation = <<10, 0>>
    /\ attempt.a.transform.quarters = 0
    /\ attempt.b.half_width = NOS_HALF_SIZE
    /\ ~SomeCornerIn(attempt.a, attempt.b)
    /\ SomeCornerIn(attempt.b, attempt.a)


(***************************************************************************)
(* Claims about pausing (RaceSpec)                                         *)
(***************************************************************************)
\* C25, first clause: ResumeFromPause is true only in the Paused state,
\* after a resume request and before Playing is entered.
C25_FlagOnlyWhileResuming ==
    [](resumeFlag => (gameState = "Paused" /\ nextState = "Playing"))

\* C25, second clause: when Playing is entered from a state other than
\* Paused the flag is false and setup_game spawns the level.
C25_SetupOnFreshEntry ==
    [][ (gameState' = "Playing" /\ gameState \notin {"Playing", "Paused"})
        => (~resumeFlag /\ SetupRuns /\ entities') ]_vars

\* C25, third clause: the car and the track exist in every Playing frame.
C25_LevelExistsWhilePlaying == [](gameState = "Playing" => entities)

\* C25: ResumeFromPause is true only between a resume request in Paused and
\* the next entry into Playing; entering Playing from any other state finds
\* the flag false and runs setup_game, so the level's entities exist whenever
\* the Playing systems run, for every interleaving of keys and buttons.
C25_ResumeFlagGuardsSetup ==
    /\ C25_FlagOnlyWhileResuming
    /\ C25_SetupOnFreshEntry
    /\ C25_LevelExistsWhilePlaying


\* C26, first clause: re-entering Playing from Paused does not run
\* setup_game.
C26_ResumeSkipsSetup ==
    [][ (gameState = "Paused" /\ gameState' = "Playing") => ~SetupRuns ]_vars

\* C26, second clause: on re-entering Playing from Paused the race, the car
\* and the visited segments are as they were when the pause began.
C26_RaceUnchanged ==
    [][ (gameState = "Paused" /\ gameState' = "Playing")
        => RaceNow' = pausedRace ]_vars

\* C26, third clause: no Playing system runs in a Paused frame.
C26_NoPlayingSystemWhilePaused ==
    [](gameState = "Paused" => ranSystems \cap SystemsOf("Playing") = {})

\* C26: a round trip Playing -> Paused -> Playing through resume does not
\* run setup_game and leaves RaceState, the car's pose and velocity and the
\* visited segments as they were when the pause began, and no Playing system
\* runs while the state is Paused.
C26_PauseRoundTrip ==
    /\ C26_ResumeSkipsSetup
    /\ C26_RaceUnchanged
    /\ C26_NoPlayingSystemWhilePaused


(***************************************************************************)
(* Claims about backtracking in try_generate_track (GenSpec)               *)
(***************************************************************************)
\* The step is an iteration that pops the last segment.
Popped ==
    /\ attempt.pc = "loop"
    /\ attempt'.pc = "loop"
    /\ Len(attempt'.layout) = Len(attempt.layout) - 1

\* C27: unless the backtrack budget ends the attempt, the iteration after a
\* pop places a segment into the cell just vacated, so two pops never happen
\* in a row, and the layout is never more than one segment shorter than the
\* longest it has been.
C27_PopThenPlaceAgain ==
    /\ [][ (Popped /\ WhileCondition(attempt', genConfig))
           => /\ LoopBranch(attempt', genConfig, genGrid) = "move"
              /\ get_next_grid_position(attempt'.current_pos, attempt'.current_dir)
                    = attempt.current_pos ]_vars
    /\ [](Len(attempt.layout) >= attempt.longest - 1)

\* A second pop has just happened in the attempt, after a placement into
\* the cell the first pop vacated.
C27_Witness ==
    /\ attempt.pc = "loop"
    /\ attempt.backtrack_count = 2
    /\ Len(attempt.layout) = attempt.longest - 1


\* C28: a layout returned by try_generate_track has at least
\* min_segments + 1 segments, and with min_segments = max_segments, which
\* validate() accepts, every attempt returns None.
C28_ReturnedLongerThanMin ==
    attempt.pc = "returned"
    => /\ attempt.result = "Some"
            => Len(attempt.layout) >= genConfig.min_segments + 1
       /\ (genConfig.min_segments = genConfig.max_segments
            /\ validate(genConfig, max_grid_segments))
            => attempt.result = "None"

\* An attempt has returned a layout of exactly min_segments + 1 segments.
C28_Witness ==
    /\ attempt.pc = "returned"
    /\ attempt.result = "Some"
    /\ Len(attempt.layout) = genConfig.min_segments + 1


\* C29: once the two forced segments are placed the layout always has at
\* least 2 segments, the first two are Straight and occupy (0,1) and (0,2);
\* an attempt with no valid move and only those two placed returns None.
C29_ForcedStraightsStay ==
    /\ [](attempt.pc \in {"loop", "returned"}
            => /\ Len(attempt.layout) >= 2
               /\ attempt.layout[1] = "Straight"
               /\ attempt.layout[2] = "Straight"
               /\ attempt.result = "None" =>
                    /\ attempt.path[2] = << <<0, 1>>, "Up" >>
                    /\ attempt.path[3] = << <<0, 2>>, "Up" >>
                    /\ {<<0, 1>>, <<0, 2>>} \subseteq attempt.visited)
    /\ [][ (/\ attempt.pc = "loop"
            /\ Len(attempt.layout) = 2
            /\ WhileCondition(attempt, genConfig)
            /\ ClosingSegment(attempt, genConfig) = "None"
            /\ ValidMoves(attempt, genGrid) = <<>>)
           => (attempt'.pc = "returned" /\ attempt'.result = "None") ]_vars

\* The attempt failed with only the two forced segments placed.
C29_Witness ==
    /\ attempt.pc = "returned"
    /\ attempt.result = "None"
    /\ attempt.layout = <<"Straight", "Straight">>
    /\ attempt.backtrack_count = 0
    /\ Len(attempt.layout) < genConfig.max_segments

(***************************************************************************)
(* Claims about termination (GenLiveSpec)                                  *)
(***************************************************************************)
\* C30: every call of try_generate_track returns; until then the layout is
\* no longer than max_segments, no more than max_backtracks backtracks are
\* used, and every iteration returns, backtracks or places a segment.
C30_AttemptTerminates ==
    /\ <>(attempt.pc = "returned")
    /\ [](/\ Len(attempt.layout) <= genConfig.max_segments
          /\ attempt.backtrack_count <= max_backtracks)
    /\ [][ attempt.pc = "loop"
           => \/ attempt'.pc = "returned"
              \/ attempt'.backtrack_count = attempt.backtrack_count + 1
              \/ Len(attempt'.layout) = Len(attempt.layout) + 1 ]_vars

\* The call has returned None with its backtrack budget used up.
C30_Witness ==
    /\ attempt.pc = "returned"
    /\ attempt.result = "None"
    /\ attempt.backtrack_count = max_backtracks

=============================================================================
